---- MODULE Spec2Model ----
(***************************************************************************)
(* Model of the PVC node agent: the per-VM controller (VMInstance) with    *)
(* its reconcile pass and live-migration hand-off, the node thread         *)
(* (NodeInstance) with its flush, the per-network controller               *)
(* (VXNetworkInstance), the /cmd/domains command handler, and the primary  *)
(* election and fencing procedures.                                        *)
(*                                                                         *)
(* One module holds several specifications over one list of variables;     *)
(* each specification initialises the variables of the other parts to a    *)
(* fixed value and leaves them unchanged.                                  *)
(***************************************************************************)
EXTENDS Integers, Sequences, FiniteSets, TLC

(***************************************************************************)
(* Part 1: VMInstance (src/node-daemon/pvcnoded/VMInstance.py)             *)
(***************************************************************************)

\* The hypervisor nodes and the one domain whose controller is modelled.
Nodes == {"hv1", "hv2"}
VM == "u1"

\* Worker-thread slots per node for the threads watch_state spawns.
MaxThreads == 2
Threads == 1..MaxThreads

\* Number of requests the client makes in one run.
MaxClientOps == 1

\* Number of one-by-one iterations of a waiting loop that are modelled before
\* the remaining idle iterations are taken in one step (up to the timeout).
MaxIdle == 0

\* Depth of the call stack of one thread (nested manage_vm_state passes).
MaxStack == 3

\* Number of failures of the virtualization driver (createXML, migrate) in one run.
MaxFaults == 1

\* HARDCODE values of the waiting loops.
SHUTDOWN_TIMEOUT == 90
RECEIVE_TIMEOUT == 90
FALLBACK_TIMEOUT == 120

Flags == {"instart", "inrestart", "inmigrate", "inreceive", "inshutdown", "instop"}

VARIABLES
    \* coordination store
    zkState,        \* /domains/<u>/state
    zkNode,         \* /domains/<u>/node
    zkFailed,       \* /domains/<u>/failedreason
    zkRunning,      \* /nodes/<n>/runningdomains, per node
    watch,          \* per node: the state DataWatch has an undelivered event
    \* per node: this_node and the local libvirt
    domain_list,    \* this_node.domain_list
    lv,             \* libvirt: "none", "paused" (incoming migration), "running"
    shutreq,        \* the guest has been asked to shut down (dom.shutdown())
    \* per node: the VMInstance object
    dom,            \* self.dom is not None
    selfState,      \* self.state
    selfNode,       \* self.node
    flags,          \* the in-progress flags that are True
    \* per node and thread
    pc,             \* position of the thread
    stk,            \* the calls in progress: return position and caller's role
    tick,           \* the tick counter of the waiting loop
    role,           \* what the pass the thread is in (or was called from) found
    \* the client and the history
    clientOps,      \* requests made so far
    faults,         \* driver failures so far
    migReq,         \* <<source, target>> of the migrate request made on a running VM
    ev              \* the store write to /domains/<u>/state of the last step

vmVars == <<zkState, zkNode, zkFailed, zkRunning, watch, domain_list, lv, shutreq,
            dom, selfState, selfNode, flags, pc, stk, tick, role, clientOps,
            faults, migReq, ev>>

\* ------------------------------------------------------------ the other parts

\* The coordinator nodes of the cluster parts (election, networks, commands,
\* fencing) and the node whose daemon the NodeInstance part follows.
Coordinators == {"hv1", "hv2", "hv3"}
Local == "hv1"

VARIABLES
    \* Part 2, NodeInstance (src/NodeInstance.py)
    ndState,        \* /nodes/<Local>/state
    ndMem,          \* per node: NodeInstance.memfree, as getfreemem() returns it
    ndPc,           \* position of the local node's thread
    ndStop,         \* stop_thread is set
    ndWatch,        \* the DataWatch on /nodes/<Local>/state is registered
    ndBound,        \* the global name node_list resolves in flush
    domainlist,     \* self.domainlist
    dmState,        \* per domain: /domains/<d>/state
    dmHyp,          \* per domain: /domains/<d>/hypervisor
    dmStateVer,     \* per domain: the store's version of the state key
    dmHypVer,       \* per domain: the store's version of the hypervisor key
    dmRuns,         \* per domain: the node whose hypervisor runs it
    flPc,           \* position of the caller inside flush
    flTodo,         \* the domains the loop of flush has yet to visit
    flHost,         \* least_host
    flDone          \* a call of flush has returned

ndVars == <<ndState, ndMem, ndPc, ndStop, ndWatch, ndBound, domainlist, dmState,
            dmHyp, dmStateVer, dmHypVer, dmRuns, flPc, flTodo, flHost, flDone>>

VARIABLES
    \* Part 3, primary election
    primary_node,   \* /primary_node
    router_state,   \* per coordinator: router state
    daemon_state    \* per coordinator: "run" or "stop"

elVars == <<primary_node, router_state, daemon_state>>

VARIABLES
    \* Part 4, VXNetworkInstance (src/router-daemon/pvcrd/VXNetworkInstance.py)
    zkGateway,      \* /networks/<vni>/ip_gateway
    ip_gateway,     \* per node: self.ip_gateway
    bridge,         \* per node: the addresses configured on br<vni>
    gwWatch         \* per node: the ip_gateway DataWatch has an undelivered event

nwVars == <<zkGateway, ip_gateway, bridge, gwWatch>>

VARIABLES
    \* Part 5, the /cmd/domains handler (run_command)
    zkCmd,          \* /cmd/domains
    cmWatch,        \* per node: the /cmd/domains watch has an undelivered event
    cmPc,           \* per node: position of the handler
    cmData,         \* per node: the data the handler was called with
    cmLock,         \* holder of the write lock on /cmd/domains
    cmReqs,         \* requests written so far
    cmExecs         \* per request: how often flush_locks ran for it

cmVars == <<zkCmd, cmWatch, cmPc, cmData, cmLock, cmReqs, cmExecs>>

VARIABLES
    \* Part 6, fencing
    fnAge,          \* per node: ticks since its last keepalive
    fnState,        \* per node: daemon_state as the fencer sees it: run, dead, fenced
    fnResult,       \* per node: result of fencing it: "none", "success", "failure"
    fnNode,         \* per domain: /domains/<d>/node
    fnDomState,     \* per domain: /domains/<d>/state
    fnLocks,        \* per domain: its volumes carry RBD locks
    fnMoved         \* per domain: the node it was relocated from ("none" if not)

fnVars == <<fnAge, fnState, fnResult, fnNode, fnDomState, fnLocks, fnMoved>>

\* Part 7: the RBD locks of one VM's volumes as flush_locks sees them
VARIABLES
    lkLocks,        \* per volume: the locks held on it
    lkListFail,     \* volumes whose lock list cannot be obtained or parsed
    lkRmFail,       \* <<volume, lock>> pairs whose removal fails
    lkFirst,        \* the locks before the first run
    lkAfter,        \* the locks after each run so far
    lkResults       \* the value each run returned

lkVars == <<lkLocks, lkListFail, lkRmFail, lkFirst, lkAfter, lkResults>>

\* Part 8: the node daemon process (src/pvcd.py) and its store session
VARIABLES
    sdSession,      \* state of the client's session: connected, suspended, lost
    sdClient,       \* the client object: started or stopped (zk.stop)
    sdMain,         \* the main thread: in the tick loop, or the process has exited
    sdPc,           \* position of the thread that runs zk_listener
    sdTimer,        \* update_timer runs its job
    sdState,        \* what t_node[myhostname].getstate() gives ("unset": it raises)
    sdKey,          \* /nodes/<myhostname>/state
    sdCleaned,      \* cleanup has run to its end (or was left by its except)
    sdAfter         \* store writes and reconcile passes made after the cleanup

sdVars == <<sdSession, sdClient, sdMain, sdPc, sdTimer, sdState, sdKey, sdCleaned,
            sdAfter>>

\* Part 9: the firewall rules of one network and direction
VARIABLES
    acOrder,        \* per description: the order field of its rule (-1: no rule)
    acChain         \* the descriptions in the sequence the adds asked for

acVars == <<acOrder, acChain>>

\* Part 10: a flush-locks request on one VM, from the client to the handler
VARIABLES
    fqState,        \* /domains/<u>/state
    fqLocks,        \* per volume of the VM: the locks held on it
    fqCmd,          \* /cmd/domains
    fqReqs          \* requests and state changes the clients made so far

fqVars == <<fqState, fqLocks, fqCmd, fqReqs>>

\* Part 11: the DHCP side of one VXNetworkInstance
VARIABLES
    dhStoreFlag,    \* /networks/<vni>/dhcp_flag
    dhFlagWatch,    \* the DataWatch on dhcp_flag has an undelivered event
    dhFlag,         \* self.dhcp_flag: a string first, a boolean once the watch has set it
    dhPrimary,      \* this_router.network_state is primary
    dhDaemon,       \* self.dhcp_server_daemon: 0 for None, else the process started
    dhRunning,      \* the dnsmasq processes of the network that run on the node
    dhStarted,      \* number of processes started so far
    dhDir,          \* self.dnsmasq_hostsdir exists
    dhStoreRes,     \* per MAC: ipaddr of its child of dhcp_reservations, or "none"
    dhResWatch,     \* the ChildrenWatch has an undelivered event
    dhRes,          \* self.dhcp_reservations
    dhFiles,        \* per MAC: content of its file in the hosts directory, or <<>>
    dhLast,         \* how the last run of the reservations callback ended
    dhOps           \* changes the clients made so far

dhVars == <<dhStoreFlag, dhFlagWatch, dhFlag, dhPrimary, dhDaemon, dhRunning, dhStarted,
            dhDir, dhStoreRes, dhResWatch, dhRes, dhFiles, dhLast, dhOps>>

\* Part 12: the data watches of the controllers and the deletion of their keys
VARIABLES
    wtKey,          \* per watched key: its value in the store, "none" when deleted
    wtPending,      \* per watch: the event not yet delivered ("": none)
    wtActive,       \* per watch: the framework still calls the callback
    wtField,        \* per watch: the controller field the callback keeps
    wtThreads,      \* manage_vm_state threads started by watch_state so far
    wtWork,         \* gateway and DHCP operations started by the network callbacks
    wtPrimary,      \* this_router.network_state is primary
    wtOps           \* changes the clients made so far

wtVars == <<wtKey, wtPending, wtActive, wtField, wtThreads, wtWork, wtPrimary, wtOps>>

\* Part 13: one waiting loop of the VM controller, tick by tick
VARIABLES
    wlLoop,         \* the loop: receive, fallback (both receive_migrate) or shutdown
    wlTick,         \* its local variable tick
    wlSecs,         \* seconds slept in the loop so far
    wlPc            \* in the loop, left because what it waited for came, or gave up

wlVars == <<wlLoop, wlTick, wlSecs, wlPc>>

\* Part 14: the running list of one node, shared by the controllers of its VMs
VARIABLES
    rlList,         \* this_node.domain_list
    rlStore,        \* /nodes/<n>/runningdomains
    rlPc,           \* per VM: position of the call its thread makes
    rlVal,          \* per VM: the value its call has computed for the store
    rlCalls         \* calls made so far

rlVars == <<rlList, rlStore, rlPc, rlVal, rlCalls>>

\* Part 15: remove_osd on the node that holds the OSD
VARIABLES
    osStore,        \* the OSD ids that have a key /ceph/osds/<id>
    osCluster,      \* the OSD ids the storage cluster knows
    osLast,         \* the last run: its id, its result, store and cluster before it
    osRuns          \* runs made so far

osVars == <<osStore, osCluster, osLast, osRuns>>

\* Part 16: init_cluster of the command-line client
VARIABLES
    icStore,        \* the keys of the store, each a sequence of path components
    icPrimary,      \* the data of /primary_node ("" while the key is absent)
    icResult,       \* what the last run of the command reported
    icRuns          \* runs made so far

icVars == <<icStore, icPrimary, icResult, icRuns>>

\* the variables of parts 15 and later
tailVars == <<osVars, icVars>>

\* the variables of parts 13 and later
lastVars == <<wlVars, rlVars, tailVars>>

\* the variables of parts 10 and later
lateVars == <<fqVars, dhVars, wtVars, lastVars>>

\* the variables of parts 7 and later
auxVars == <<lkVars, sdVars, acVars, lateVars>>

vars == <<vmVars, ndVars, elVars, nwVars, cmVars, fnVars, auxVars>>

NoEv == [by |-> "none", val |-> "", at |-> "", role |-> "none", ran |-> FALSE]
NoMig == <<"none", "none">>
AllWatch == [m \in Nodes |-> TRUE]

\* ------------------------------------------------------------ helpers

\* zkhandler.writedata of /domains/<u>/state by node n; every node's DataWatch
\* fires.  The write is recorded with what the pass that led to it had found
\* (r) and with whether the domain ran on n when the step began.
WriteState(n, r, v, at) ==
    /\ zkState' = v
    /\ watch' = AllWatch
    /\ ev' = [by |-> n, val |-> v, at |-> at, role |-> r, ran |-> lv[n] = "running"]

NoStateWrite == UNCHANGED <<zkState, watch>> /\ ev' = NoEv

\* return from the function the thread is in; a thread whose outermost
\* function returns ends
Return(n, t) ==
    IF stk[n][t] = <<>>
    THEN /\ pc' = [pc EXCEPT ![n][t] = "idle"]
         /\ role' = [role EXCEPT ![n][t] = "none"]
         /\ tick' = [tick EXCEPT ![n][t] = 0]
         /\ stk' = stk
    ELSE /\ pc' = [pc EXCEPT ![n][t] = Head(stk[n][t]).pc]
         /\ role' = [role EXCEPT ![n][t] = Head(stk[n][t]).role]
         /\ stk' = [stk EXCEPT ![n][t] = Tail(@)]
         /\ UNCHANGED tick

Call(n, t, entry, ret) ==
    /\ pc' = [pc EXCEPT ![n][t] = entry]
    /\ stk' = [stk EXCEPT ![n][t] = <<[pc |-> ret, role |-> role[n][t]]>> \o @]
    /\ UNCHANGED <<role, tick>>

Goto(n, t, p) ==
    /\ pc' = [pc EXCEPT ![n][t] = p]
    /\ UNCHANGED <<stk, role, tick>>

GotoTick(n, t, p, tk) ==
    /\ pc' = [pc EXCEPT ![n][t] = p]
    /\ tick' = [tick EXCEPT ![n][t] = tk]
    /\ UNCHANGED <<stk, role>>

\* an uncaught exception ends the thread where it is
Crash(n, t) ==
    /\ pc' = [pc EXCEPT ![n][t] = "idle"]
    /\ stk' = [stk EXCEPT ![n][t] = <<>>]
    /\ role' = [role EXCEPT ![n][t] = "none"]
    /\ tick' = [tick EXCEPT ![n][t] = 0]

\* the tick after one more iteration of a waiting loop that adds step and
\* gives up at the value `over`
Advance(tk, step, over) ==
    IF tk + step > MaxIdle * step THEN over ELSE tk + step

\* first tick values at which the loops give up
ShutdownGiveUp == ((SHUTDOWN_TIMEOUT + 1) \div 2) * 2
ReceiveGiveUp == RECEIVE_TIMEOUT + 1
FallbackGiveUp == FALLBACK_TIMEOUT + 1

addDomainToList(n) ==
    IF VM \notin domain_list[n]
    THEN /\ domain_list' = [domain_list EXCEPT ![n] = @ \cup {VM}]
         /\ zkRunning' = [zkRunning EXCEPT ![n] = domain_list[n] \cup {VM}]
    ELSE UNCHANGED <<domain_list, zkRunning>>

\* removeDomainFromList that forgets the VM locally and leaves the store's
\* runningdomains as it is
removeDomainFromList_local_only(n) ==
    /\ domain_list' = [domain_list EXCEPT ![n] = @ \ {VM}]
    /\ UNCHANGED zkRunning

removeDomainFromList(n) ==
    IF VM \in domain_list[n]
    THEN /\ domain_list' = [domain_list EXCEPT ![n] = @ \ {VM}]
         /\ zkRunning' = [zkRunning EXCEPT ![n] = domain_list[n] \ {VM}]
    ELSE UNCHANGED <<domain_list, zkRunning>>

\* lookupByUUID: None when the VM should not live on this node
lookupByUUID(n) == selfNode[n] = n /\ lv[n] # "none"

Other(n) == CHOOSE m \in Nodes : m # n

\* the variables of the other parts stay as they are in a step of this part
VMFrame == UNCHANGED <<ndVars, elVars, nwVars, cmVars, fnVars, auxVars>>

\* what the client and the environment did so far stays
Hist == UNCHANGED <<clientOps, migReq>>

\* ------------------------------------------------------------ manage_vm_state

\* the check of the six in-progress flags (lines 495-500)
NoActionInProgress(n) == flags[n] = {}

\* lines 467-561, for a pass by thread t of node n: state and node are read,
\* the local liveness is taken from self.dom, the flags are checked and the
\* branch is taken.  The branches that call no lifecycle function (adopting
\* a running domain, lines 506-517, and the second chain of the not-running
\* branch, lines 537-548) are done in the same step; a lifecycle function is
\* entered in a step of its own.
Pass(n, t) ==
    /\ selfState' = [selfState EXCEPT ![n] = zkState]
    /\ selfNode' = [selfNode EXCEPT ![n] = zkNode]
    /\ LET running == dom[n] /\ lv[n] = "running"
           mine == zkNode = n
           st == zkState
           go(p, r) == /\ pc' = [pc EXCEPT ![n][t] = p]
                       /\ role' = [role EXCEPT ![n][t] = r]
                       /\ UNCHANGED <<stk, tick>>
           call(p, ret, r) == /\ pc' = [pc EXCEPT ![n][t] = p]
                              /\ stk' = [stk EXCEPT ![n][t] =
                                           <<[pc |-> ret, role |-> r]>> \o @]
                              /\ role' = [role EXCEPT ![n][t] = r]
                              /\ UNCHANGED tick
           quiet == NoStateWrite /\ UNCHANGED <<domain_list, zkRunning>>
       IN IF ~NoActionInProgress(n) THEN Return(n, t) /\ quiet
          ELSE IF mine /\ running THEN
               CASE st = "start" ->
                      addDomainToList(n) /\ NoStateWrite /\ Return(n, t)
                 [] st = "migrate" ->
                      /\ WriteState(n, "own_run", "start", "manage_vm_state:515")
                      /\ addDomainToList(n) /\ Return(n, t)
                 [] st = "restart" -> go("restart_vm", "own_run") /\ quiet
                 [] st = "shutdown" -> go("shutdown_vm", "own_run") /\ quiet
                 [] st = "stop" -> go("stop_vm", "own_run") /\ quiet
                 [] OTHER -> Return(n, t) /\ quiet
          ELSE IF mine THEN
               CASE st = "start" -> call("start_vm", "nr_post", "own_absent") /\ quiet
                 [] st = "migrate" -> call("receive_migrate", "nr_post", "own_absent") /\ quiet
                 [] st = "restart" ->
                      /\ WriteState(n, "own_absent", "start", "manage_vm_state:538")
                      /\ UNCHANGED <<domain_list, zkRunning>> /\ Return(n, t)
                 [] st \in {"shutdown", "stop"} ->
                      removeDomainFromList(n) /\ NoStateWrite /\ Return(n, t)
                 [] OTHER -> Return(n, t) /\ quiet
          ELSE IF running THEN
               CASE st = "migrate" -> go("migrate_vm", "src_migrate") /\ quiet
                 [] st = "shutdown" -> go("shutdown_vm", "src_shutdown") /\ quiet
                 [] OTHER -> go("terminate_vm", "other_term") /\ quiet
          ELSE Return(n, t) /\ quiet
    /\ UNCHANGED <<zkNode, zkFailed, lv, shutreq, dom, flags, faults>>
    /\ Hist

\* watch_state (lines 128-138): the DataWatch callback starts a thread that
\* runs manage_vm_state (the lowest free slot takes it)
watch_state(n, t) ==
    /\ watch[n]
    /\ pc[n][t] = "idle"
    /\ \A t2 \in Threads : t2 < t => pc[n][t2] # "idle"
    /\ Goto(n, t, "manage_vm_state")
    /\ watch' = [watch EXCEPT ![n] = FALSE]
    /\ ev' = NoEv
    /\ UNCHANGED <<zkState, zkNode, zkFailed, zkRunning, domain_list, lv, shutreq,
                   dom, selfState, selfNode, flags, faults>>
    /\ Hist /\ VMFrame

manage_vm_state(n, t) ==
    /\ pc[n][t] = "manage_vm_state"
    /\ Pass(n, t)
    /\ VMFrame

\* lines 537-548 after start_vm or receive_migrate has returned: the second
\* chain of the not-running branch, on self.state as it is now
nr_post(n, t) ==
    /\ pc[n][t] = "nr_post"
    /\ IF selfState[n] = "restart"
       THEN /\ WriteState(n, role[n][t], "start", "manage_vm_state:538")
            /\ UNCHANGED <<domain_list, zkRunning>>
       ELSE /\ NoStateWrite
            /\ IF selfState[n] \in {"shutdown", "stop"}
               THEN removeDomainFromList(n)
               ELSE UNCHANGED <<domain_list, zkRunning>>
    /\ Return(n, t)
    /\ UNCHANGED <<zkNode, zkFailed, lv, shutreq, dom, selfState, selfNode, flags, faults>>
    /\ Hist /\ VMFrame

\* ------------------------------------------------------------ start_vm

\* the outcomes createXML can have: it cannot create a domain that exists
CreateOutcomes(n) ==
    IF lv[n] # "none" THEN {FALSE}
    ELSE IF faults < MaxFaults THEN {TRUE, FALSE} ELSE {TRUE}

\* lines 190-228: the flag is set; the domain is adopted if it runs, else
\* created from the XML; a libvirtError writes state=fail (failedreason
\* follows in a write of its own)
start_vm(n, t) ==
    /\ pc[n][t] = "start_vm"
    /\ flags' = [flags EXCEPT ![n] = @ \cup {"instart"}]
    /\ IF lookupByUUID(n) /\ lv[n] = "running"
       THEN /\ addDomainToList(n)
            /\ zkFailed' = ""
            /\ dom' = [dom EXCEPT ![n] = TRUE]
            /\ NoStateWrite
            /\ Goto(n, t, "sv_exit")
            /\ UNCHANGED <<lv, shutreq, faults>>
       ELSE \E ok \in CreateOutcomes(n) :
              IF ok
              THEN /\ lv' = [lv EXCEPT ![n] = "running"]
                   /\ shutreq' = [shutreq EXCEPT ![n] = FALSE]
                   /\ addDomainToList(n)
                   /\ dom' = [dom EXCEPT ![n] = TRUE]
                   /\ zkFailed' = ""
                   /\ NoStateWrite
                   /\ Goto(n, t, "sv_exit")
                   /\ UNCHANGED faults
              ELSE /\ WriteState(n, role[n][t], "fail", "start_vm:226")
                   /\ dom' = [dom EXCEPT ![n] = FALSE]
                   /\ faults' = IF lv[n] = "none" THEN faults + 1 ELSE faults
                   /\ Goto(n, t, "sv_fail")
                   /\ UNCHANGED <<lv, shutreq, zkFailed, domain_list, zkRunning>>
    /\ UNCHANGED <<zkNode, selfState, selfNode>>
    /\ Hist /\ VMFrame

\* line 227
sv_fail(n, t) ==
    /\ pc[n][t] = "sv_fail"
    /\ zkFailed' = "libvirtError"
    /\ Goto(n, t, "sv_exit")
    /\ NoStateWrite
    /\ UNCHANGED <<zkNode, zkRunning, domain_list, lv, shutreq, dom, selfState,
                   selfNode, flags, faults>>
    /\ Hist /\ VMFrame

\* lines 230-232
sv_exit(n, t) ==
    /\ pc[n][t] = "sv_exit"
    /\ flags' = [flags EXCEPT ![n] = @ \ {"instart"}]
    /\ Return(n, t)
    /\ NoStateWrite
    /\ UNCHANGED <<zkNode, zkFailed, zkRunning, domain_list, lv, shutreq, dom,
                   selfState, selfNode, faults>>
    /\ Hist /\ VMFrame

\* ------------------------------------------------------------ restart_vm

\* lines 236-249: the flag is set; shutdown_vm is called, and start_vm after it
restart_vm(n, t) ==
    /\ pc[n][t] = "restart_vm"
    /\ flags' = [flags EXCEPT ![n] = @ \cup {"inrestart"}]
    /\ pc' = [pc EXCEPT ![n][t] = "shutdown_vm"]
    /\ stk' = [stk EXCEPT ![n][t] = <<[pc |-> "start_vm", role |-> role[n][t]],
                                      [pc |-> "rv_add", role |-> role[n][t]]>> \o @]
    /\ UNCHANGED <<role, tick>>
    /\ NoStateWrite
    /\ UNCHANGED <<zkNode, zkFailed, zkRunning, domain_list, lv, shutreq, dom,
                   selfState, selfNode, faults>>
    /\ Hist /\ VMFrame

\* lines 250-252
rv_add(n, t) ==
    /\ pc[n][t] = "rv_add"
    /\ addDomainToList(n)
    /\ WriteState(n, role[n][t], "start", "restart_vm:252")
    /\ Goto(n, t, "rv_exit")
    /\ UNCHANGED <<zkNode, zkFailed, lv, shutreq, dom, selfState, selfNode, flags, faults>>
    /\ Hist /\ VMFrame

\* lines 253-254
rv_exit(n, t) ==
    /\ pc[n][t] = "rv_exit"
    /\ flags' = [flags EXCEPT ![n] = @ \ {"inrestart"}]
    /\ Return(n, t)
    /\ NoStateWrite
    /\ UNCHANGED <<zkNode, zkFailed, zkRunning, domain_list, lv, shutreq, dom,
                   selfState, selfNode, faults>>
    /\ Hist /\ VMFrame

\* ------------------------------------------------------------ terminate_vm, stop_vm

\* self.dom.destroy(): only the AttributeError of a missing handle is caught;
\* destroying a domain that no longer exists raises libvirtError
DestroyRaises(n) == dom[n] /\ lv[n] = "none"

\* terminate_vm that reports the stop in the store, as stop_vm does
terminate_vm_writing(n, t) ==
    /\ pc[n][t] = "terminate_vm"
    /\ flags' = [flags EXCEPT ![n] = @ \cup {"instop"}]
    /\ IF DestroyRaises(n)
       THEN Crash(n, t) /\ NoStateWrite /\ UNCHANGED <<lv, dom, domain_list, zkRunning>>
       ELSE /\ lv' = [lv EXCEPT ![n] = IF dom[n] THEN "none" ELSE @]
            /\ removeDomainFromList(n)
            /\ WriteState(n, role[n][t], "stop", "terminate_vm")
            /\ dom' = [dom EXCEPT ![n] = FALSE]
            /\ Goto(n, t, "tv_exit")
    /\ UNCHANGED <<zkNode, zkFailed, shutreq, selfState, selfNode, faults>>
    /\ Hist /\ VMFrame

\* terminate_vm that destroys the domain and leaves the VM in the running list
terminate_vm_keeping_listed(n, t) ==
    /\ pc[n][t] = "terminate_vm"
    /\ flags' = [flags EXCEPT ![n] = @ \cup {"instop"}]
    /\ IF DestroyRaises(n)
       THEN Crash(n, t) /\ UNCHANGED <<lv, dom>>
       ELSE /\ lv' = [lv EXCEPT ![n] = IF dom[n] THEN "none" ELSE @]
            /\ dom' = [dom EXCEPT ![n] = FALSE]
            /\ Goto(n, t, "tv_exit")
    /\ NoStateWrite
    /\ UNCHANGED <<zkNode, zkFailed, shutreq, selfState, selfNode, faults, domain_list,
                   zkRunning>>
    /\ Hist /\ VMFrame

\* lines 258-266: the flag is set; destroy, remove from the running list;
\* state is not written
terminate_vm(n, t) ==
    /\ pc[n][t] = "terminate_vm"
    /\ flags' = [flags EXCEPT ![n] = @ \cup {"instop"}]
    /\ IF DestroyRaises(n)
       THEN Crash(n, t) /\ UNCHANGED <<lv, dom, domain_list, zkRunning>>
       ELSE /\ lv' = [lv EXCEPT ![n] = IF dom[n] THEN "none" ELSE @]
            /\ removeDomainFromList(n)
            /\ dom' = [dom EXCEPT ![n] = FALSE]
            /\ Goto(n, t, "tv_exit")
    /\ NoStateWrite
    /\ UNCHANGED <<zkNode, zkFailed, shutreq, selfState, selfNode, faults>>
    /\ Hist /\ VMFrame

\* line 267
tv_exit(n, t) ==
    /\ pc[n][t] = "tv_exit"
    /\ flags' = [flags EXCEPT ![n] = @ \ {"instop"}]
    /\ Return(n, t)
    /\ NoStateWrite
    /\ UNCHANGED <<zkNode, zkFailed, zkRunning, domain_list, lv, shutreq, dom,
                   selfState, selfNode, faults>>
    /\ Hist /\ VMFrame

\* stop_vm that leaves the VM in the running list
stop_vm_keeping_listed(n, t) ==
    /\ pc[n][t] = "stop_vm"
    /\ flags' = [flags EXCEPT ![n] = @ \cup {"instop"}]
    /\ IF DestroyRaises(n)
       THEN Crash(n, t) /\ NoStateWrite /\ UNCHANGED <<lv, dom>>
       ELSE /\ lv' = [lv EXCEPT ![n] = IF dom[n] THEN "none" ELSE @]
            /\ IF "inrestart" \notin flags[n]
               THEN WriteState(n, role[n][t], "stop", "stop_vm:283")
               ELSE NoStateWrite
            /\ dom' = [dom EXCEPT ![n] = FALSE]
            /\ Goto(n, t, "st_exit")
    /\ UNCHANGED <<zkNode, zkFailed, shutreq, selfState, selfNode, faults, domain_list,
                   zkRunning>>
    /\ Hist /\ VMFrame

\* lines 274-286: the flag is set; destroy, remove from the running list,
\* write state=stop unless a restart is in progress
stop_vm(n, t) ==
    /\ pc[n][t] = "stop_vm"
    /\ flags' = [flags EXCEPT ![n] = @ \cup {"instop"}]
    /\ IF DestroyRaises(n)
       THEN Crash(n, t) /\ NoStateWrite /\ UNCHANGED <<lv, dom, domain_list, zkRunning>>
       ELSE /\ lv' = [lv EXCEPT ![n] = IF dom[n] THEN "none" ELSE @]
            /\ removeDomainFromList(n)
            /\ IF "inrestart" \notin flags[n]
               THEN WriteState(n, role[n][t], "stop", "stop_vm:283")
               ELSE NoStateWrite
            /\ dom' = [dom EXCEPT ![n] = FALSE]
            /\ Goto(n, t, "st_exit")
    /\ UNCHANGED <<zkNode, zkFailed, shutreq, selfState, selfNode, faults>>
    /\ Hist /\ VMFrame

\* line 287
st_exit(n, t) ==
    /\ pc[n][t] = "st_exit"
    /\ flags' = [flags EXCEPT ![n] = @ \ {"instop"}]
    /\ Return(n, t)
    /\ NoStateWrite
    /\ UNCHANGED <<zkNode, zkFailed, zkRunning, domain_list, lv, shutreq, dom,
                   selfState, selfNode, faults>>
    /\ Hist /\ VMFrame

\* ------------------------------------------------------------ shutdown_vm

\* self.dom.shutdown() raises when the handle is None or the domain is gone
ShutdownRaises(n) == ~dom[n] \/ lv[n] = "none"

\* lines 294-298: the flag is set and the guest is asked to shut down
shutdown_vm(n, t) ==
    /\ pc[n][t] = "shutdown_vm"
    /\ flags' = [flags EXCEPT ![n] = @ \cup {"inshutdown"}]
    /\ IF ShutdownRaises(n)
       THEN Crash(n, t) /\ UNCHANGED shutreq
       ELSE /\ shutreq' = [shutreq EXCEPT ![n] = TRUE]
            /\ GotoTick(n, t, "sd_loop", 0)
    /\ NoStateWrite
    /\ UNCHANGED <<zkNode, zkFailed, zkRunning, domain_list, lv, dom, selfState,
                   selfNode, faults>>
    /\ Hist /\ VMFrame

\* lines 299-328: one iteration of the waiting loop
sd_loop(n, t) ==
    /\ pc[n][t] = "sd_loop"
    /\ LET tk == Advance(tick[n][t], 2, ShutdownGiveUp)
       IN IF zkState \notin {"shutdown", "restart"}
          THEN /\ GotoTick(n, t, "sd_abort", tk)
               /\ NoStateWrite
               /\ UNCHANGED <<domain_list, zkRunning, dom>>
          ELSE IF ~(dom[n] /\ lv[n] = "running")
          THEN /\ removeDomainFromList(n)
               /\ WriteState(n, role[n][t], "stop", "shutdown_vm:317")
               /\ dom' = [dom EXCEPT ![n] = FALSE]
               /\ GotoTick(n, t, "sd_exit", tk)
          ELSE IF tk >= SHUTDOWN_TIMEOUT
          THEN /\ WriteState(n, role[n][t], "stop", "shutdown_vm:327")
               /\ GotoTick(n, t, "sd_exit", tk)
               /\ UNCHANGED <<domain_list, zkRunning, dom>>
          ELSE /\ GotoTick(n, t, "sd_loop", tk)
               /\ NoStateWrite
               /\ UNCHANGED <<domain_list, zkRunning, dom>>
    /\ UNCHANGED <<zkNode, zkFailed, lv, shutreq, selfState, selfNode, flags, faults>>
    /\ Hist /\ VMFrame

\* lines 330-335 when the loop was not aborted: the flag is cleared; the
\* write of line 338 follows after a sleep when a restart is in progress
sd_exit(n, t) ==
    /\ pc[n][t] = "sd_exit"
    /\ flags' = [flags EXCEPT ![n] = @ \ {"inshutdown"}]
    /\ IF "inrestart" \in flags[n] THEN Goto(n, t, "sd_after") ELSE Return(n, t)
    /\ NoStateWrite
    /\ UNCHANGED <<zkNode, zkFailed, zkRunning, domain_list, lv, shutreq, dom,
                   selfState, selfNode, faults>>
    /\ Hist /\ VMFrame

\* lines 330-333 when the loop was aborted: the flag is cleared and
\* manage_vm_state is called
sd_abort(n, t) ==
    /\ pc[n][t] = "sd_abort"
    /\ Len(stk[n][t]) < MaxStack
    /\ flags' = [flags EXCEPT ![n] = @ \ {"inshutdown"}]
    /\ Call(n, t, "manage_vm_state", "sd_after")
    /\ NoStateWrite
    /\ UNCHANGED <<zkNode, zkFailed, zkRunning, domain_list, lv, shutreq, dom,
                   selfState, selfNode, faults>>
    /\ Hist /\ VMFrame

\* lines 335-338
sd_after(n, t) ==
    /\ pc[n][t] = "sd_after"
    /\ IF "inrestart" \in flags[n]
       THEN WriteState(n, role[n][t], "start", "shutdown_vm:338")
       ELSE NoStateWrite
    /\ Return(n, t)
    /\ UNCHANGED <<zkNode, zkFailed, zkRunning, domain_list, lv, shutreq, dom,
                   selfState, selfNode, flags, faults>>
    /\ Hist /\ VMFrame

\* the guest operating system powers off after being asked to
GuestPowersOff(n) ==
    /\ shutreq[n]
    /\ lv[n] = "running"
    /\ lv' = [lv EXCEPT ![n] = "none"]
    /\ shutreq' = [shutreq EXCEPT ![n] = FALSE]
    /\ ev' = NoEv
    /\ UNCHANGED <<zkState, zkNode, zkFailed, zkRunning, watch, domain_list, dom,
                   selfState, selfNode, flags, pc, stk, tick, role, faults>>
    /\ Hist /\ VMFrame

\* ------------------------------------------------------------ migrate_vm

\* live_migrate_vm can send when the source domain runs and the destination
\* (self.node) is another node that does not hold the domain yet
CanSend(n) ==
    /\ dom[n] /\ lv[n] = "running"
    /\ selfNode[n] # n
    /\ lv[selfNode[n]] = "none"

\* lines 368-374 with live_migrate_vm lines 341-360: the flag is set and the
\* transfer begins (the domain appears paused on the destination); a failure
\* to open the connection or to send writes state=shutdown
migrate_vm(n, t) ==
    /\ pc[n][t] = "migrate_vm"
    /\ flags' = [flags EXCEPT ![n] = @ \cup {"inmigrate"}]
    /\ \E ok \in IF ~CanSend(n) THEN {FALSE}
                 ELSE IF faults < MaxFaults THEN {TRUE, FALSE} ELSE {TRUE} :
         IF ok
         THEN /\ lv' = [lv EXCEPT ![selfNode[n]] = "paused"]
              /\ Goto(n, t, "mg_live")
              /\ NoStateWrite
              /\ UNCHANGED faults
         ELSE /\ WriteState(n, role[n][t], "shutdown", "migrate_vm:374")
              /\ faults' = IF CanSend(n) THEN faults + 1 ELSE faults
              /\ Goto(n, t, "mg_exit")
              /\ UNCHANGED lv
    /\ UNCHANGED <<zkNode, zkFailed, zkRunning, domain_list, shutreq, dom, selfState,
                   selfNode>>
    /\ Hist /\ VMFrame

\* live_migrate_vm line 354 returning: the domain now runs on the destination
\* and is gone here, or the transfer failed and the destination's copy is
\* discarded (lines 357-360, 374)
mg_live(n, t) ==
    /\ pc[n][t] = "mg_live"
    /\ LET dst == Other(n)
       IN \E ok \in IF lv[n] # "running" \/ lv[dst] # "paused" THEN {FALSE}
                    ELSE IF faults < MaxFaults THEN {TRUE, FALSE} ELSE {TRUE} :
            IF ok
            THEN /\ lv' = [lv EXCEPT ![n] = "none", ![dst] = "running"]
                 /\ shutreq' = [shutreq EXCEPT ![n] = FALSE, ![dst] = shutreq[n]]
                 /\ Goto(n, t, "mg_done")
                 /\ NoStateWrite
                 /\ UNCHANGED faults
            ELSE /\ lv' = [lv EXCEPT ![dst] = IF @ = "paused" THEN "none" ELSE @]
                 /\ WriteState(n, role[n][t], "shutdown", "migrate_vm:374")
                 /\ faults' = IF lv[n] = "running" /\ lv[dst] = "paused"
                              THEN faults + 1 ELSE faults
                 /\ Goto(n, t, "mg_exit")
                 /\ UNCHANGED shutreq
    /\ UNCHANGED <<zkNode, zkFailed, zkRunning, domain_list, dom, selfState, selfNode,
                   flags>>
    /\ Hist /\ VMFrame

\* the source announcing the arrival itself: it writes state=start after a
\* successful send
mg_done_writing_start(n, t) ==
    /\ pc[n][t] = "mg_done"
    /\ removeDomainFromList(n)
    /\ Goto(n, t, "mg_exit")
    /\ WriteState(n, role[n][t], "start", "migrate_vm")
    /\ UNCHANGED <<zkNode, zkFailed, lv, shutreq, dom, selfState, selfNode, flags, faults>>
    /\ Hist /\ VMFrame

\* line 376
mg_done(n, t) ==
    /\ pc[n][t] = "mg_done"
    /\ removeDomainFromList(n)
    /\ Goto(n, t, "mg_exit")
    /\ NoStateWrite
    /\ UNCHANGED <<zkNode, zkFailed, lv, shutreq, dom, selfState, selfNode, flags, faults>>
    /\ Hist /\ VMFrame

\* line 380
mg_exit(n, t) ==
    /\ pc[n][t] = "mg_exit"
    /\ flags' = [flags EXCEPT ![n] = @ \ {"inmigrate"}]
    /\ Return(n, t)
    /\ NoStateWrite
    /\ UNCHANGED <<zkNode, zkFailed, zkRunning, domain_list, lv, shutreq, dom,
                   selfState, selfNode, faults>>
    /\ Hist /\ VMFrame

\* ------------------------------------------------------------ receive_migrate

\* lines 384-386
receive_migrate(n, t) ==
    /\ pc[n][t] = "receive_migrate"
    /\ flags' = [flags EXCEPT ![n] = @ \cup {"inreceive"}]
    /\ GotoTick(n, t, "rm_loop", 0)
    /\ NoStateWrite
    /\ UNCHANGED <<zkNode, zkFailed, zkRunning, domain_list, lv, shutreq, dom,
                   selfState, selfNode, faults>>
    /\ Hist /\ VMFrame

\* lines 388-427: one iteration of the receive loop
rm_loop(n, t) ==
    /\ pc[n][t] = "rm_loop"
    /\ LET tk == Advance(tick[n][t], 1, ReceiveGiveUp)
           st == zkState
           found == lookupByUUID(n)
       IN /\ selfState' = [selfState EXCEPT ![n] = st]
          /\ dom' = [dom EXCEPT ![n] = found]
          /\ IF found /\ lv[n] = "running"
             THEN /\ addDomainToList(n)
                  /\ WriteState(n, role[n][t], "start", "receive_migrate:403")
                  /\ GotoTick(n, t, "rm_exit", tk)
             ELSE IF found /\ st # "migrate"
             THEN /\ GotoTick(n, t, "rm_exit", tk)
                  /\ NoStateWrite
                  /\ UNCHANGED <<domain_list, zkRunning>>
             ELSE IF ~found /\ st \in {"shutdown", "stop"}
             THEN /\ GotoTick(n, t, "rm_fb", 0)
                  /\ NoStateWrite
                  /\ UNCHANGED <<domain_list, zkRunning>>
             ELSE IF tk > RECEIVE_TIMEOUT
             THEN /\ WriteState(n, role[n][t], "fail", "receive_migrate:425")
                  /\ GotoTick(n, t, "rm_exit", tk)
                  /\ UNCHANGED <<domain_list, zkRunning>>
             ELSE /\ GotoTick(n, t, "rm_loop", tk)
                  /\ NoStateWrite
                  /\ UNCHANGED <<domain_list, zkRunning>>
    /\ UNCHANGED <<zkNode, zkFailed, lv, shutreq, selfNode, flags, faults>>
    /\ Hist /\ VMFrame

\* lines 430-458: one iteration of the loop that waits for the shutdown on
\* the remote end; the two keys of lines 453-456 are written in one call
rm_fb(n, t) ==
    /\ pc[n][t] = "rm_fb"
    /\ LET tk == Advance(tick[n][t], 1, FallbackGiveUp)
           st == zkState
       IN /\ selfState' = [selfState EXCEPT ![n] = st]
          /\ IF st = "stop"
             THEN /\ WriteState(n, role[n][t], "start", "receive_migrate:446")
                  /\ GotoTick(n, t, "rm_exit", tk)
                  /\ UNCHANGED zkFailed
             ELSE IF tk > FALLBACK_TIMEOUT
             THEN /\ WriteState(n, role[n][t], "fail", "receive_migrate:453")
                  /\ zkFailed' = "Timeout waiting for migrate or shutdown"
                  /\ GotoTick(n, t, "rm_exit", tk)
             ELSE /\ GotoTick(n, t, "rm_fb", tk)
                  /\ NoStateWrite
                  /\ UNCHANGED zkFailed
    /\ UNCHANGED <<zkNode, zkRunning, domain_list, lv, shutreq, dom, selfNode, flags,
                   faults>>
    /\ Hist /\ VMFrame

\* line 460
rm_exit(n, t) ==
    /\ pc[n][t] = "rm_exit"
    /\ flags' = [flags EXCEPT ![n] = @ \ {"inreceive"}]
    /\ Return(n, t)
    /\ NoStateWrite
    /\ UNCHANGED <<zkNode, zkFailed, zkRunning, domain_list, lv, shutreq, dom,
                   selfState, selfNode, faults>>
    /\ Hist /\ VMFrame

\* ------------------------------------------------------------ the client

\* the states the client commands write (src/client-cli/pvc.py: vm start,
\* restart, shutdown, stop)
ClientStates == {"start", "restart", "shutdown", "stop"}

ClientSetState(v) ==
    /\ clientOps < MaxClientOps
    /\ clientOps' = clientOps + 1
    /\ zkState' = v
    /\ watch' = AllWatch
    /\ ev' = [by |-> "client", val |-> v, at |-> "client", role |-> "none", ran |-> FALSE]
    /\ migReq' = NoMig
    /\ UNCHANGED <<zkNode, zkFailed, zkRunning, domain_list, lv, shutreq, dom,
                   selfState, selfNode, flags, pc, stk, tick, role, faults>>
    /\ VMFrame

\* vm migrate / vm move: state=migrate and node=<target> in one transaction,
\* for a VM whose state is start
ClientMigrate(target) ==
    /\ clientOps < MaxClientOps
    /\ zkState = "start"
    /\ target # zkNode
    /\ clientOps' = clientOps + 1
    /\ zkState' = "migrate"
    /\ zkNode' = target
    /\ watch' = AllWatch
    /\ ev' = [by |-> "client", val |-> "migrate", at |-> "client", role |-> "none",
              ran |-> FALSE]
    /\ migReq' = IF lv[zkNode] = "running" THEN <<zkNode, target>> ELSE NoMig
    /\ UNCHANGED <<zkFailed, zkRunning, domain_list, lv, shutreq, dom,
                   selfState, selfNode, flags, pc, stk, tick, role, faults>>
    /\ VMFrame

\* ------------------------------------------------------------ specification

\* The daemons have just constructed the VMInstance objects (lines 96-138):
\* every field has its constructor value and the DataWatch registered in the
\* constructor is about to fire for the first time.
InitVM ==
    /\ zkState = "start"
    /\ zkNode = "hv1"
    /\ zkFailed = ""
    /\ zkRunning = [n \in Nodes |-> {}]
    /\ watch = AllWatch
    /\ domain_list = [n \in Nodes |-> {}]
    /\ lv = [n \in Nodes |-> "none"]
    /\ shutreq = [n \in Nodes |-> FALSE]
    /\ dom = [n \in Nodes |-> FALSE]
    /\ selfState = [n \in Nodes |-> "start"]
    /\ selfNode = [n \in Nodes |-> "hv1"]
    /\ flags = [n \in Nodes |-> {}]
    /\ pc = [n \in Nodes |-> [t \in Threads |-> "idle"]]
    /\ stk = [n \in Nodes |-> [t \in Threads |-> <<>>]]
    /\ tick = [n \in Nodes |-> [t \in Threads |-> 0]]
    /\ role = [n \in Nodes |-> [t \in Threads |-> "none"]]
    /\ clientOps = 0
    /\ faults = 0
    /\ migReq = NoMig
    /\ ev = NoEv

ThreadStep(n, t) ==
    \/ watch_state(n, t)
    \/ manage_vm_state(n, t)
    \/ nr_post(n, t)
    \/ start_vm(n, t)
    \/ sv_fail(n, t)
    \/ sv_exit(n, t)
    \/ restart_vm(n, t)
    \/ rv_add(n, t)
    \/ rv_exit(n, t)
    \/ terminate_vm(n, t)
    \/ tv_exit(n, t)
    \/ stop_vm(n, t)
    \/ st_exit(n, t)
    \/ shutdown_vm(n, t)
    \/ sd_loop(n, t)
    \/ sd_exit(n, t)
    \/ sd_abort(n, t)
    \/ sd_after(n, t)
    \/ migrate_vm(n, t)
    \/ mg_live(n, t)
    \/ mg_done(n, t)
    \/ mg_exit(n, t)
    \/ receive_migrate(n, t)
    \/ rm_loop(n, t)
    \/ rm_fb(n, t)
    \/ rm_exit(n, t)

NextVM ==
    \/ \E n \in Nodes, t \in Threads : ThreadStep(n, t)
    \/ \E n \in Nodes : GuestPowersOff(n)
    \/ \E v \in ClientStates : ClientSetState(v)
    \/ \E target \in Nodes : ClientMigrate(target)

(***************************************************************************)
(* Properties of the VM controller                                         *)
(***************************************************************************)

Listing == {n \in Nodes : VM \in zkRunning[n]}

\* C1 (as claimed): in every reachable state at most one node's
\* /nodes/<n>/runningdomains contains the VM, the live-migration hand-off
\* between migrate_vm and receive_migrate included.
SingleOwner == Cardinality(Listing) <= 1

\* no thread runs, no watch event is undelivered and the guest is not about
\* to power off: nothing more happens until the next request
Settled ==
    /\ \A n \in Nodes : ~watch[n] /\ \A t \in Threads : pc[n][t] = "idle"
    /\ \A n \in Nodes : ~(shutreq[n] /\ lv[n] = "running")

\* C2 (as claimed): once everything a migrate request on a running VM set in
\* motion has come to rest, with the target reachable (no driver failure),
\* the VM runs on the target or state=fail with a non-empty failedreason.
MigrateOrShutdown ==
    (migReq # NoMig /\ Settled /\ faults = 0) =>
        \/ lv[migReq[2]] = "running"
        \/ zkState = "fail" /\ zkFailed # ""

\* the positions inside a lifecycle action, after its flag has been set
InAction == {"sv_fail", "sv_exit", "rv_add", "rv_exit", "tv_exit",
             "st_exit", "sd_loop", "sd_exit", "sd_abort", "mg_live", "mg_done",
             "mg_exit", "rm_loop", "rm_fb", "rm_exit"}

\* the threads of node n that execute a lifecycle action
Executing(n) ==
    {t \in Threads : pc[n][t] \in InAction \/
                     \E i \in 1..Len(stk[n][t]) : stk[n][t][i].pc \in InAction}

\* C3 (as claimed): on one node at most one thread executes a lifecycle
\* action of the VM at any time.
OneActionAtATime == \A n \in Nodes : Cardinality(Executing(n)) <= 1

NdDomains == {"d1", "d2"}

\* values conn.getFreeMemory() returns
MemValues == {4, 8, 9}

\* least_mem = (2^64)/8 is (2 XOR 64)/8 = 8.25; in quarters
LEAST_MEM_QUARTERS == 33

\* the lists self.domainlist can hold
DomainLists == {<<>>, <<"d1">>, <<"d2">>, <<"d1", "d2">>, <<"d2", "d1">>}

\* the lists node_list can be bound to
NodeLists == {<<>>, <<"hv1">>, <<"hv1", "hv2">>, <<"hv2", "hv1">>}

\* the value of ndBound when node_list is not bound
Unbound == <<"unbound">>

\* lines 41-48: the scan for least_host; least is in quarters.  The memfree
\* of a remote node is the string its watch decoded (line 112): comparing it
\* with a number raises TypeError.
RECURSIVE PickLeast(_, _, _)
PickLeast(nodes, least, host) ==
    IF nodes = <<>> THEN [raised |-> FALSE, host |-> host]
    ELSE LET n == Head(nodes)
         IN IF n # Local THEN [raised |-> TRUE, host |-> host]
            ELSE IF 4 * ndMem[n] < least
                 THEN PickLeast(Tail(nodes), 4 * ndMem[n], n)
                 ELSE PickLeast(Tail(nodes), least, host)

InList(d, list) == \E i \in 1..Len(list) : list[i] = d

NodeFrame == UNCHANGED <<vmVars, elVars, nwVars, cmVars, fnVars, auxVars>>

\* run and setup_local_node up to the loop (lines 53-73)
setup_local_node ==
    /\ ndPc = "run"
    /\ ndState' = "start"
    /\ ndPc' = "loop"
    /\ UNCHANGED <<ndMem, ndStop, ndWatch, ndBound, domainlist, dmState, dmHyp,
                   dmStateVer, dmHypVer, dmRuns, flPc, flTodo, flHost, flDone>>
    /\ NodeFrame

\* one round of the loop of lines 75-85; it is left only by return, so the
\* DataWatch of lines 87-92 is never registered
nd_loop ==
    /\ ndPc = "loop"
    /\ \E m \in MemValues : ndMem' = [ndMem EXCEPT ![Local] = m]
    /\ ndPc' = IF ndStop THEN "returned" ELSE "loop"
    /\ UNCHANGED <<ndState, ndStop, ndWatch, ndBound, domainlist, dmState, dmHyp,
                   dmStateVer, dmHypVer, dmRuns, flPc, flTodo, flHost, flDone>>
    /\ NodeFrame

\* stop (lines 34-35)
stop ==
    /\ ~ndStop
    /\ ndPc = "loop"
    /\ ndStop' = TRUE
    /\ UNCHANGED <<ndState, ndMem, ndPc, ndWatch, ndBound, domainlist, dmState, dmHyp,
                   dmStateVer, dmHypVer, dmRuns, flPc, flTodo, flHost, flDone>>
    /\ NodeFrame

\* the operator takes the node out of service or back: /nodes/<Local>/state
ClientNodeState(v) ==
    /\ ndState # v
    /\ ndPc # "run"
    /\ ndState' = v
    /\ UNCHANGED <<ndMem, ndPc, ndStop, ndWatch, ndBound, domainlist, dmState, dmHyp,
                   dmStateVer, dmHypVer, dmRuns, flPc, flTodo, flHost, flDone>>
    /\ NodeFrame

\* a caller enters flush (line 38)
flush_call ==
    /\ flPc = "idle"
    /\ ~flDone
    /\ flPc' = "next"
    /\ flTodo' = domainlist
    /\ UNCHANGED <<ndState, ndMem, ndPc, ndStop, ndWatch, ndBound, domainlist, dmState,
                   dmHyp, dmStateVer, dmHypVer, dmRuns, flHost, flDone>>
    /\ NodeFrame

\* lines 39-48: the next domain of the loop, if any, and the scan for its
\* target; an unbound node_list raises NameError at line 44
flush_pick ==
    /\ flPc = "next"
    /\ IF flTodo = <<>>
       THEN flPc' = "idle" /\ flDone' = TRUE /\ UNCHANGED flHost
       ELSE IF ndBound = Unbound
       THEN flPc' = "raised" /\ UNCHANGED <<flHost, flDone>>
       ELSE LET r == PickLeast(ndBound, LEAST_MEM_QUARTERS, "")
            IN IF r.raised
               THEN flPc' = "raised" /\ UNCHANGED <<flHost, flDone>>
               ELSE flPc' = "set_state" /\ flHost' = r.host /\ UNCHANGED flDone
    /\ UNCHANGED <<ndState, ndMem, ndPc, ndStop, ndWatch, ndBound, domainlist, dmState,
                   dmHyp, dmStateVer, dmHypVer, dmRuns, flTodo>>
    /\ NodeFrame

\* line 50
flush_set_state ==
    /\ flPc = "set_state"
    /\ dmState' = [dmState EXCEPT ![Head(flTodo)] = "flush"]
    /\ dmStateVer' = [dmStateVer EXCEPT ![Head(flTodo)] = @ + 1]
    /\ flPc' = "set_hypervisor"
    /\ UNCHANGED <<ndState, ndMem, ndPc, ndStop, ndWatch, ndBound, domainlist, dmHyp,
                   dmHypVer, dmRuns, flTodo, flHost, flDone>>
    /\ NodeFrame

\* line 51
flush_set_hypervisor ==
    /\ flPc = "set_hypervisor"
    /\ dmHyp' = [dmHyp EXCEPT ![Head(flTodo)] = flHost]
    /\ dmHypVer' = [dmHypVer EXCEPT ![Head(flTodo)] = @ + 1]
    /\ flTodo' = Tail(flTodo)
    /\ flPc' = "next"
    /\ UNCHANGED <<ndState, ndMem, ndPc, ndStop, ndWatch, ndBound, domainlist, dmState,
                   dmStateVer, dmRuns, flHost, flDone>>
    /\ NodeFrame

\* NodeInstance constructed (lines 6-14) and started; the domains of
\* domainlist run here and are owned by this node
InitNode ==
    /\ ndState = "stop"
    /\ ndMem \in [{Local} -> MemValues]
    /\ ndPc = "run"
    /\ ndStop = FALSE
    /\ ndWatch = FALSE
    /\ ndBound \in NodeLists \cup {Unbound}
    /\ domainlist \in DomainLists
    /\ dmState = [d \in NdDomains |-> "start"]
    /\ dmHyp = [d \in NdDomains |-> IF InList(d, domainlist) THEN Local ELSE "hv2"]
    /\ dmStateVer = [d \in NdDomains |-> 0]
    /\ dmHypVer = [d \in NdDomains |-> 0]
    /\ dmRuns = [d \in NdDomains |-> IF InList(d, domainlist) THEN Local ELSE "hv2"]
    /\ flPc = "idle"
    /\ flTodo = <<>>
    /\ flHost = ""
    /\ flDone = FALSE

ParkNode ==
    /\ ndState = "stop"
    /\ ndMem = [n \in {Local} |-> 9]
    /\ ndPc = "run"
    /\ ndStop = FALSE
    /\ ndWatch = FALSE
    /\ ndBound = Unbound
    /\ domainlist = <<>>
    /\ dmState = [d \in NdDomains |-> "start"]
    /\ dmHyp = [d \in NdDomains |-> Local]
    /\ dmStateVer = [d \in NdDomains |-> 0]
    /\ dmHypVer = [d \in NdDomains |-> 0]
    /\ dmRuns = [d \in NdDomains |-> Local]
    /\ flPc = "idle"
    /\ flTodo = <<>>
    /\ flHost = ""
    /\ flDone = FALSE

NextNode ==
    \/ setup_local_node
    \/ nd_loop
    \/ stop
    \/ \E v \in {"flush", "start"} : ClientNodeState(v)
    \/ flush_call
    \/ flush_pick
    \/ flush_set_state
    \/ flush_set_hypervisor

\* C7 (as claimed): no observer can read the store with one of the two keys
\* of an ownership move updated and the other not: the two keys of a domain
\* have been written equally often in every state.
AtomicOwnershipMove == \A d \in NdDomains : dmStateVer[d] = dmHypVer[d]

\* C8 (as claimed): the change of the node's state key to flush triggers the
\* flush on the local node (its watch is registered while the thread runs),
\* and once a flush has completed the node's domain list is empty and every
\* domain that ran on it runs on a different node or has state=fail.
FlushCompleteness ==
    /\ (ndState = "flush" /\ ndPc = "loop") => ndWatch
    /\ flDone => /\ domainlist = <<>>
                 /\ \A d \in NdDomains : dmRuns[d] # Local \/ dmState[d] = "fail"

(***************************************************************************)
(* Part 3: primary election.  The daemon code that runs the election is    *)
(* not part of the sources; the steps follow the specification's section   *)
(* on the node supervisor.  /primary_node starts as "none" (init_cluster). *)
(***************************************************************************)

\* the steps of the network controller the router-state changes call
\* createGatewayAddress (lines 211-235): the address is added only when the
\* router's network state is primary
createGatewayAddress(rs, gw, br) == IF rs = "primary" THEN br \cup {gw} ELSE br

\* removeGatewayAddress (lines 323-339): deletes self.ip_gateway as it is now
removeGatewayAddress(gw, br) == br \ {gw}

ElectionFrame == UNCHANGED <<vmVars, ndVars, fnVars, auxVars>>

\* contend that writes /primary_node without comparing it with none
contend_unconditionally(n) ==
    /\ daemon_state[n] = "run"
    /\ router_state[n] = "secondary"
    /\ primary_node' = n
    /\ router_state' = [router_state EXCEPT ![n] = "takeover"]
    /\ UNCHANGED <<daemon_state, nwVars, cmVars>>
    /\ ElectionFrame

\* a coordinator whose daemon runs contends: compare-and-swap of
\* /primary_node from none to its own name; it enters takeover
contend(n) ==
    /\ daemon_state[n] = "run"
    /\ router_state[n] = "secondary"
    /\ primary_node = "none"
    /\ primary_node' = n
    /\ router_state' = [router_state EXCEPT ![n] = "takeover"]
    /\ UNCHANGED <<daemon_state, nwVars, cmVars>>
    /\ ElectionFrame

\* takeover ends: the node is primary and brings the services up.  The
\* node's client runs its callbacks one after another, and the change of the
\* router state is one of them: the events queued before it have been
\* delivered.
become_primary(n) ==
    /\ router_state[n] = "takeover"
    /\ ~gwWatch[n] /\ ~cmWatch[n]
    /\ router_state' = [router_state EXCEPT ![n] = "primary"]
    /\ bridge' = [bridge EXCEPT ![n] = createGatewayAddress("primary", ip_gateway[n], @)]
    /\ UNCHANGED <<primary_node, daemon_state, zkGateway, ip_gateway, gwWatch, cmVars>>
    /\ ElectionFrame

\* the primary is told to step down
relinquish(n) ==
    /\ router_state[n] = "primary"
    /\ router_state' = [router_state EXCEPT ![n] = "relinquish"]
    /\ UNCHANGED <<primary_node, daemon_state, nwVars, cmVars>>
    /\ ElectionFrame

\* the relinquishing node tears its gateway address down and only then
\* writes /primary_node = none
become_secondary(n) ==
    /\ router_state[n] = "relinquish"
    /\ bridge' = [bridge EXCEPT ![n] = removeGatewayAddress(ip_gateway[n], @)]
    /\ primary_node' = "none"
    /\ router_state' = [router_state EXCEPT ![n] = "secondary"]
    /\ UNCHANGED <<daemon_state, zkGateway, ip_gateway, gwWatch, cmVars>>
    /\ ElectionFrame

\* a secondary coordinator's daemon stops
leave(n) ==
    /\ daemon_state[n] = "run"
    /\ router_state[n] = "secondary"
    /\ daemon_state' = [daemon_state EXCEPT ![n] = "stop"]
    /\ UNCHANGED <<primary_node, router_state, nwVars, cmVars>>
    /\ ElectionFrame

\* a stopped coordinator's daemon starts: the network instance is built
\* anew (VXNetworkInstance.__init__ line 41 reads ip_gateway) and its
\* watches fire for the first time
join(n) ==
    /\ daemon_state[n] = "stop"
    /\ daemon_state' = [daemon_state EXCEPT ![n] = "run"]
    /\ ip_gateway' = [ip_gateway EXCEPT ![n] = zkGateway]
    /\ gwWatch' = [gwWatch EXCEPT ![n] = TRUE]
    /\ cmWatch' = [cmWatch EXCEPT ![n] = TRUE]
    /\ UNCHANGED <<primary_node, router_state, zkGateway, bridge, zkCmd, cmPc, cmData,
                   cmLock, cmReqs, cmExecs>>
    /\ ElectionFrame

InitElection ==
    /\ primary_node = "none"
    /\ router_state = [n \in Coordinators |-> "secondary"]
    /\ daemon_state = [n \in Coordinators |-> "run"]

ParkElection == InitElection

NextElection ==
    \E n \in Coordinators :
        \/ contend(n)
        \/ become_primary(n)
        \/ relinquish(n)
        \/ become_secondary(n)
        \/ leave(n)
        \/ join(n)

(***************************************************************************)
(* Part 4: VXNetworkInstance, the gateway address of one managed network   *)
(* (src/router-daemon/pvcrd/VXNetworkInstance.py)                          *)
(***************************************************************************)

Gateways == {"10.0.0.1", "10.0.0.254"}

\* the client changes the network's gateway: every node's DataWatch fires
ClientSetGateway(g) ==
    /\ g # zkGateway
    /\ zkGateway' = g
    /\ gwWatch' = [n \in Coordinators |-> daemon_state[n] = "run"]
    /\ UNCHANGED <<ip_gateway, bridge, elVars, cmVars>>
    /\ ElectionFrame

\* watch_network_gateway (lines 95-108): self.ip_gateway takes the new value
\* before removeGatewayAddress runs, which therefore deletes the new address
watch_network_gateway(n) ==
    /\ gwWatch[n]
    /\ daemon_state[n] = "run"
    /\ gwWatch' = [gwWatch EXCEPT ![n] = FALSE]
    /\ IF ip_gateway[n] # zkGateway
       THEN /\ ip_gateway' = [ip_gateway EXCEPT ![n] = zkGateway]
            /\ bridge' = [bridge EXCEPT ![n] =
                 IF router_state[n] = "primary"
                 THEN createGatewayAddress(router_state[n], zkGateway,
                                           removeGatewayAddress(zkGateway, @))
                 ELSE @]
       ELSE UNCHANGED <<ip_gateway, bridge>>
    /\ UNCHANGED <<zkGateway, elVars, cmVars>>
    /\ ElectionFrame

\* the instances have been constructed: ip_gateway was read from the store
\* (line 41), no address is on a bridge, the watches are about to fire
InitNet ==
    /\ zkGateway = "10.0.0.1"
    /\ ip_gateway = [n \in Coordinators |-> "10.0.0.1"]
    /\ bridge = [n \in Coordinators |-> {}]
    /\ gwWatch = [n \in Coordinators |-> TRUE]

ParkNet ==
    /\ zkGateway = "10.0.0.1"
    /\ ip_gateway = [n \in Coordinators |-> "10.0.0.1"]
    /\ bridge = [n \in Coordinators |-> {}]
    /\ gwWatch = [n \in Coordinators |-> FALSE]

NextNet ==
    \/ NextElection
    \/ \E g \in Gateways : ClientSetGateway(g)
    \/ \E n \in Coordinators : watch_network_gateway(n)

(***************************************************************************)
(* Part 5: the /cmd/domains handler, run_command                           *)
(* (src/node-daemon/pvcnoded/VMInstance.py lines 70-92)                    *)
(***************************************************************************)

\* number of requests the clients write in one run
MaxRequests == 2
Requests == 1..MaxRequests

\* the value of /cmd/domains: "<prefix><command> <args>"
NoCmd == [prefix |-> "", command |-> "", args |-> 0]
Request(r) == [prefix |-> "", command |-> "flush_locks", args |-> r]

\* 'success-{}'.format(data) and 'failure-{}'.format(data)
Answer(result, data) ==
    [data EXCEPT !.prefix = IF result THEN "success-" ELSE "failure-"]

\* data.split(): the first word of the value
Command(data) == <<data.prefix, data.command>>

\* flush_locks (lines 39-67) returns True whatever the rbd commands return
flush_locks(r) == TRUE

CmdFrame == UNCHANGED <<vmVars, ndVars, fnVars, auxVars>>

\* a client writes a request
ClientRequest ==
    /\ cmReqs < MaxRequests
    /\ cmReqs' = cmReqs + 1
    /\ zkCmd' = Request(cmReqs + 1)
    /\ cmWatch' = [n \in Coordinators |-> daemon_state[n] = "run"]
    /\ UNCHANGED <<cmPc, cmData, cmLock, cmExecs, elVars, nwVars>>
    /\ CmdFrame

\* run_command without the check of the router state
run_command_on_any_node(n) ==
    /\ cmWatch[n]
    /\ daemon_state[n] = "run"
    /\ cmPc[n] = "idle"
    /\ cmWatch' = [cmWatch EXCEPT ![n] = FALSE]
    /\ IF Command(zkCmd) = <<"", "flush_locks">>
       THEN /\ cmPc' = [cmPc EXCEPT ![n] = "lock"]
            /\ cmData' = [cmData EXCEPT ![n] = zkCmd]
       ELSE UNCHANGED <<cmPc, cmData>>
    /\ UNCHANGED <<zkCmd, cmLock, cmReqs, cmExecs, elVars, nwVars>>
    /\ CmdFrame

\* the watch on /cmd/domains calls run_command with the value; lines 72-77:
\* only the command flush_locks is handled, and only by the primary
run_command(n) ==
    /\ cmWatch[n]
    /\ daemon_state[n] = "run"
    /\ cmPc[n] = "idle"
    /\ cmWatch' = [cmWatch EXCEPT ![n] = FALSE]
    /\ IF Command(zkCmd) = <<"", "flush_locks">> /\ router_state[n] = "primary"
       THEN /\ cmPc' = [cmPc EXCEPT ![n] = "lock"]
            /\ cmData' = [cmData EXCEPT ![n] = zkCmd]
       ELSE UNCHANGED <<cmPc, cmData>>
    /\ UNCHANGED <<zkCmd, cmLock, cmReqs, cmExecs, elVars, nwVars>>
    /\ CmdFrame

\* lines 79-80: the write lock is acquired
rc_lock(n) ==
    /\ cmPc[n] = "lock"
    /\ cmLock = "none"
    /\ cmLock' = n
    /\ cmPc' = [cmPc EXCEPT ![n] = "flush_locks"]
    /\ UNCHANGED <<zkCmd, cmWatch, cmData, cmReqs, cmExecs, elVars, nwVars>>
    /\ CmdFrame

\* line 82: flush_locks runs
rc_flush_locks(n) ==
    /\ cmPc[n] = "flush_locks"
    /\ cmExecs' = [cmExecs EXCEPT ![cmData[n].args] = @ + 1]
    /\ cmPc' = [cmPc EXCEPT ![n] = "answer"]
    /\ UNCHANGED <<zkCmd, cmWatch, cmData, cmLock, cmReqs, elVars, nwVars>>
    /\ CmdFrame

\* lines 84-90: the answer is written into the key
rc_answer(n) ==
    /\ cmPc[n] = "answer"
    /\ zkCmd' = Answer(flush_locks(cmData[n].args), cmData[n])
    /\ cmWatch' = [m \in Coordinators |-> daemon_state[m] = "run"]
    /\ cmPc' = [cmPc EXCEPT ![n] = "release"]
    /\ UNCHANGED <<cmData, cmLock, cmReqs, cmExecs, elVars, nwVars>>
    /\ CmdFrame

\* lines 91-92: after the sleep the lock is released
rc_release(n) ==
    /\ cmPc[n] = "release"
    /\ cmLock' = "none"
    /\ cmPc' = [cmPc EXCEPT ![n] = "idle"]
    /\ UNCHANGED <<zkCmd, cmWatch, cmData, cmReqs, cmExecs, elVars, nwVars>>
    /\ CmdFrame

InitCmd ==
    /\ zkCmd = NoCmd
    /\ cmWatch = [n \in Coordinators |-> FALSE]
    /\ cmPc = [n \in Coordinators |-> "idle"]
    /\ cmData = [n \in Coordinators |-> NoCmd]
    /\ cmLock = "none"
    /\ cmReqs = 0
    /\ cmExecs = [r \in Requests |-> 0]

ParkCmd == InitCmd

NextCmd ==
    \/ NextElection
    \/ ClientRequest
    \/ \E n \in Coordinators :
         \/ run_command(n)
         \/ rc_lock(n)
         \/ rc_flush_locks(n)
         \/ rc_answer(n)
         \/ rc_release(n)

(***************************************************************************)
(* Part 6: fencing.  The fencing code is not part of the sources; the      *)
(* steps follow the specification's section on the fencing module.  The    *)
(* primary is fixed for the run and is the only node that fences.          *)
(***************************************************************************)

FnDomains == {"d1", "d2"}

\* a peer is fenced when its keepalive is older than 6 ticks
FENCE_TICKS == 6

\* ages are counted up to one tick past the threshold
MaxAge == 7

FenceFrame == UNCHANGED <<vmVars, ndVars, elVars, nwVars, cmVars, auxVars>>

\* a node publishes its keepalive
keepalive(n) ==
    /\ fnState[n] = "run"
    /\ fnAge[n] > 0
    /\ fnAge' = [fnAge EXCEPT ![n] = 0]
    /\ UNCHANGED <<fnState, fnResult, fnNode, fnDomState, fnLocks, fnMoved>>
    /\ FenceFrame

\* a tick passes without a keepalive of the node
miss(n) ==
    /\ fnAge[n] < MaxAge
    /\ fnAge' = [fnAge EXCEPT ![n] = @ + 1]
    /\ UNCHANGED <<fnState, fnResult, fnNode, fnDomState, fnLocks, fnMoved>>
    /\ FenceFrame

\* step 1: the primary declares the silent peer dead
declare_dead(p) ==
    /\ primary_node \notin {"none", p}
    /\ fnState[p] = "run"
    /\ fnAge[p] > FENCE_TICKS
    /\ fnState' = [fnState EXCEPT ![p] = "dead"]
    /\ UNCHANGED <<fnAge, fnResult, fnNode, fnDomState, fnLocks, fnMoved>>
    /\ FenceFrame

\* steps 2-4: the peer is power-cycled through its management interface and
\* the result recorded; on success it is fenced, on failure it stays dead
fence(p) ==
    /\ primary_node \notin {"none", p}
    /\ fnState[p] = "dead"
    /\ fnResult[p] = "none"
    /\ \E ok \in BOOLEAN :
         /\ fnResult' = [fnResult EXCEPT ![p] = IF ok THEN "success" ELSE "failure"]
         /\ fnState' = [fnState EXCEPT ![p] = IF ok THEN "fenced" ELSE "dead"]
    /\ UNCHANGED <<fnAge, fnNode, fnDomState, fnLocks, fnMoved>>
    /\ FenceFrame

\* relocate that does not wait for the result of the fencing
relocate_at_once(d, target) ==
    /\ primary_node \notin {"none", fnNode[d]}
    /\ fnState[fnNode[d]] \in {"dead", "fenced"}
    /\ fnDomState[d] = "start"
    /\ fnState[target] = "run"
    /\ fnLocks' = [fnLocks EXCEPT ![d] = FALSE]
    /\ fnNode' = [fnNode EXCEPT ![d] = target]
    /\ fnDomState' = [fnDomState EXCEPT ![d] = "start"]
    /\ fnMoved' = [fnMoved EXCEPT ![d] = fnNode[d]]
    /\ UNCHANGED <<fnAge, fnState, fnResult>>
    /\ FenceFrame

\* step 3, per domain of the fenced peer in state start: the RBD locks are
\* flushed, node is rewritten to a freshly selected target and state to start
relocate(d, target) ==
    /\ primary_node \notin {"none", fnNode[d]}
    /\ fnState[fnNode[d]] = "fenced"
    /\ fnDomState[d] = "start"
    /\ fnState[target] = "run"
    /\ fnLocks' = [fnLocks EXCEPT ![d] = FALSE]
    /\ fnNode' = [fnNode EXCEPT ![d] = target]
    /\ fnDomState' = [fnDomState EXCEPT ![d] = "start"]
    /\ fnMoved' = [fnMoved EXCEPT ![d] = fnNode[d]]
    /\ UNCHANGED <<fnAge, fnState, fnResult>>
    /\ FenceFrame

\* the client starts or stops a domain
ClientDomState(d, v) ==
    /\ fnDomState[d] # v
    /\ fnDomState' = [fnDomState EXCEPT ![d] = v]
    /\ fnLocks' = [fnLocks EXCEPT ![d] = (v = "start" /\ fnState[fnNode[d]] = "run")]
    /\ UNCHANGED <<fnAge, fnState, fnResult, fnNode, fnMoved>>
    /\ FenceFrame

InitFence ==
    /\ fnAge = [n \in Coordinators |-> 0]
    /\ fnState = [n \in Coordinators |-> "run"]
    /\ fnResult = [n \in Coordinators |-> "none"]
    /\ fnNode \in [FnDomains -> Coordinators]
    /\ fnDomState = [d \in FnDomains |-> "start"]
    /\ fnLocks = [d \in FnDomains |-> TRUE]
    /\ fnMoved = [d \in FnDomains |-> "none"]

ParkFence ==
    /\ fnAge = [n \in Coordinators |-> 0]
    /\ fnState = [n \in Coordinators |-> "run"]
    /\ fnResult = [n \in Coordinators |-> "none"]
    /\ fnNode = [d \in FnDomains |-> "hv1"]
    /\ fnDomState = [d \in FnDomains |-> "start"]
    /\ fnLocks = [d \in FnDomains |-> TRUE]
    /\ fnMoved = [d \in FnDomains |-> "none"]

\* a primary has been elected before the run begins
InitPrimary ==
    /\ primary_node \in Coordinators
    /\ router_state = [n \in Coordinators |->
                         IF n = primary_node THEN "primary" ELSE "secondary"]
    /\ daemon_state = [n \in Coordinators |-> "run"]

NextFence ==
    \/ \E n \in Coordinators : keepalive(n) \/ miss(n) \/ declare_dead(n) \/ fence(n)
    \/ \E d \in FnDomains, target \in Coordinators : relocate(d, target)
    \/ \E d \in FnDomains, v \in {"start", "stop"} : ClientDomState(d, v)

(***************************************************************************)
(* Part 7: flush_locks (src/node-daemon/pvcnoded/VMInstance.py lines       *)
(* 39-67) as a function of the locks on the VM's volumes and of the        *)
(* outcomes of the rbd commands.  The outcome of a command on a given      *)
(* volume or lock is the same in every run.                                *)
(***************************************************************************)

\* the volumes of the VM's rbdlist and the lock ids a volume can carry
Volumes == {"vol1", "vol2"}
LockIds == {"lockA", "lockB"}

\* number of consecutive runs of flush_locks
MaxRuns == 2

\* lines 42-64 for one volume: a failed or unparsable lock list skips the
\* volume; an empty list does nothing; otherwise every listed lock is
\* removed unless its rbd lock remove fails
flush_volume(rbd, locks, listfail, rmfail) ==
    IF rbd \in listfail THEN locks
    ELSE IF locks = {} THEN locks
    ELSE {l \in locks : <<rbd, l>> \in rmfail}

\* flush_volume that stops after the first lock of a volume it could remove
flush_locks_on_first_only(locks, listfail, rmfail) ==
    [rbd \in Volumes |->
        LET removable == {l \in locks[rbd] : <<rbd, l>> \notin rmfail}
        IN IF rbd \in listfail \/ removable = {} THEN locks[rbd]
           ELSE locks[rbd] \ {CHOOSE l \in removable : TRUE}]

\* lines 41-64: the locks left on the volumes after one run
flush_locks_on(locks, listfail, rmfail) ==
    [rbd \in Volumes |-> flush_volume(rbd, locks[rbd], listfail, rmfail)]

LocksFrame ==
    UNCHANGED <<vmVars, ndVars, elVars, nwVars, cmVars, fnVars, sdVars, acVars, lateVars>>

\* one run of flush_locks on the VM
flush_locks_run ==
    /\ Len(lkAfter) < MaxRuns
    /\ lkLocks' = flush_locks_on(lkLocks, lkListFail, lkRmFail)
    /\ lkAfter' = Append(lkAfter, lkLocks')
    /\ lkResults' = Append(lkResults, flush_locks(Len(lkAfter) + 1))
    /\ UNCHANGED <<lkListFail, lkRmFail, lkFirst>>
    /\ LocksFrame

InitLocks ==
    /\ lkLocks \in [Volumes -> SUBSET LockIds]
    /\ lkListFail \in SUBSET Volumes
    /\ lkRmFail \in SUBSET (Volumes \X LockIds)
    /\ lkFirst = lkLocks
    /\ lkAfter = <<>>
    /\ lkResults = <<>>

ParkLocks ==
    /\ lkLocks = [rbd \in Volumes |-> {}]
    /\ lkListFail = {}
    /\ lkRmFail = {}
    /\ lkFirst = lkLocks
    /\ lkAfter = <<>>
    /\ lkResults = <<>>

NextLocks == flush_locks_run

(***************************************************************************)
(* Part 8: the node daemon process (src/pvcd.py): the session listener,    *)
(* cleanup, the update timer and the threads that reconcile.  zk_listener  *)
(* is called by the client library on one of its own threads while the     *)
(* main thread is in the tick loop of lines 126-130; exit() raises         *)
(* SystemExit in the thread that calls it.                                 *)
(***************************************************************************)

\* number of store writes and passes counted after the cleanup
MaxAfter == 2

DaemonFrame ==
    UNCHANGED <<vmVars, ndVars, elVars, nwVars, cmVars, fnVars, lkVars, acVars, lateVars>>

\* the library reports the session state SUSPENDED or LOST (line 48)
zk_listener(state) ==
    /\ sdMain = "loop" /\ sdClient = "started"
    /\ sdPc = "idle"
    /\ sdSession = "connected" \/ (sdSession = "suspended" /\ state = "lost")
    /\ sdSession' = state
    /\ sdPc' = "cleanup"
    /\ UNCHANGED <<sdClient, sdMain, sdTimer, sdState, sdKey, sdCleaned, sdAfter>>
    /\ DaemonFrame

\* cleanup, line 65: update_timer.shutdown()
cl_timer ==
    /\ sdPc = "cleanup"
    /\ sdTimer' = FALSE
    /\ sdPc' = "cl_getstate"
    /\ UNCHANGED <<sdSession, sdClient, sdMain, sdState, sdKey, sdCleaned, sdAfter>>
    /\ DaemonFrame

\* cleanup, lines 66-67: the node's state is written as stop unless it is
\* flush; an exception of getstate, or of zk.set without a connected
\* session, ends cleanup (lines 70-71)
cl_set ==
    /\ sdPc = "cl_getstate"
    /\ IF sdState = "unset"
       THEN sdPc' = "exit" /\ sdCleaned' = TRUE /\ UNCHANGED sdKey
       ELSE IF sdState = "flush"
       THEN sdPc' = "cl_stop" /\ UNCHANGED <<sdKey, sdCleaned>>
       ELSE IF sdSession = "connected"
       THEN sdKey' = "stop" /\ sdPc' = "cl_stop" /\ UNCHANGED sdCleaned
       ELSE sdPc' = "exit" /\ sdCleaned' = TRUE /\ UNCHANGED sdKey
    /\ UNCHANGED <<sdSession, sdClient, sdMain, sdTimer, sdState, sdAfter>>
    /\ DaemonFrame

\* cleanup, lines 68-69: zk.stop() and zk.close(); stop can raise when it
\* is called on the client's own thread
cl_stop ==
    /\ sdPc = "cl_stop"
    /\ \E ok \in BOOLEAN :
         sdClient' = IF ok THEN "stopped" ELSE sdClient
    /\ sdCleaned' = TRUE
    /\ sdPc' = "exit"
    /\ UNCHANGED <<sdSession, sdMain, sdTimer, sdState, sdKey, sdAfter>>
    /\ DaemonFrame

\* lines 51 and 54: exit(2) raises SystemExit in the calling thread, which
\* is not the main thread: that thread ends and the process goes on
exit ==
    /\ sdPc = "exit"
    /\ sdPc' = "ended"
    /\ UNCHANGED <<sdSession, sdClient, sdMain, sdTimer, sdState, sdKey, sdCleaned,
                   sdAfter>>
    /\ DaemonFrame

\* the library re-establishes the connection (a new session after LOST)
\* as long as the client has not been stopped
reconnect ==
    /\ sdMain = "loop" /\ sdClient = "started"
    /\ sdSession # "connected"
    /\ sdPc \in {"idle", "ended"}
    /\ sdSession' = "connected"
    /\ sdPc' = "idle"
    /\ UNCHANGED <<sdClient, sdMain, sdTimer, sdState, sdKey, sdCleaned, sdAfter>>
    /\ DaemonFrame

\* a watch callback of the process runs (updatenodes, updatedomains, lines
\* 93-114, and the watches of the instances they create): a pass that reads
\* and writes the store
reconcile ==
    /\ sdMain = "loop" /\ sdClient = "started" /\ sdSession = "connected"
    /\ sdAfter < MaxAfter
    /\ sdAfter' = IF sdCleaned THEN sdAfter + 1 ELSE sdAfter
    /\ \E v \in {"start", "flush"} : sdState' = v /\ sdKey' = v
    /\ UNCHANGED <<sdSession, sdClient, sdMain, sdPc, sdTimer, sdCleaned>>
    /\ DaemonFrame

\* the job of update_timer (lines 118-123) writes the node's keys
update_zookeeper ==
    /\ sdMain = "loop" /\ sdTimer
    /\ sdClient = "started" /\ sdSession = "connected"
    /\ sdAfter < MaxAfter
    /\ sdAfter' = IF sdCleaned THEN sdAfter + 1 ELSE sdAfter
    /\ UNCHANGED <<sdSession, sdClient, sdMain, sdPc, sdTimer, sdState, sdKey, sdCleaned>>
    /\ DaemonFrame

\* the tick loop is broken by an exception of sleep (lines 127-130): the
\* script ends and the atexit handler runs cleanup (line 73)
interrupt ==
    /\ sdMain = "loop"
    /\ sdPc \in {"idle", "ended"}
    /\ sdMain' = "exited"
    /\ sdTimer' = FALSE
    /\ sdClient' = "stopped"
    /\ sdKey' = IF sdState \in {"flush", "unset"} \/ sdSession # "connected" \/ sdClient # "started"
                THEN sdKey ELSE "stop"
    /\ sdCleaned' = TRUE
    /\ UNCHANGED <<sdSession, sdPc, sdState, sdAfter>>
    /\ DaemonFrame

\* the daemon has started: connected, timer running, main thread in the loop
InitDaemon ==
    /\ sdSession = "connected"
    /\ sdClient = "started"
    /\ sdMain = "loop"
    /\ sdPc = "idle"
    /\ sdTimer = TRUE
    /\ sdState \in {"unset", "start", "flush"}
    /\ sdKey = IF sdState = "unset" THEN "stop" ELSE sdState
    /\ sdCleaned = FALSE
    /\ sdAfter = 0

ParkDaemon ==
    /\ sdSession = "connected"
    /\ sdClient = "started"
    /\ sdMain = "loop"
    /\ sdPc = "idle"
    /\ sdTimer = TRUE
    /\ sdState = "start"
    /\ sdKey = "start"
    /\ sdCleaned = FALSE
    /\ sdAfter = 0

NextDaemon ==
    \/ \E state \in {"suspended", "lost"} : zk_listener(state)
    \/ cl_timer
    \/ cl_set
    \/ cl_stop
    \/ exit
    \/ reconnect
    \/ reconcile
    \/ update_zookeeper
    \/ interrupt

(***************************************************************************)
(* Part 9: firewall rules.  net_acl_add (src/client-cli/pvc.py) hands the  *)
(* request to a library that is not part of the sources, and the code that *)
(* materializes the chain is not either; the steps follow the command's    *)
(* description and the specification's paragraph on the firewall.          *)
(***************************************************************************)

\* the descriptions rules can carry (unique per rule)
Descriptions == {"ssh", "web", "dns", "ntp", "deny"}

\* number of rules added in one run
MaxRules == 4

\* the rules in the store
AclRules == {d \in Descriptions : acOrder[d] >= 0}

\* materialization: the rules in the sequence of their order fields
RECURSIVE SortedByOrder(_)
SortedByOrder(rules) ==
    IF rules = {} THEN <<>>
    ELSE LET first == CHOOSE d \in rules : \A e \in rules : acOrder[d] <= acOrder[e]
         IN <<first>> \o SortedByOrder(rules \ {first})

\* the sequence with x put at position i (1-based)
InsertAt(seq, i, x) == SubSeq(seq, 1, i - 1) \o <<x>> \o SubSeq(seq, i, Len(seq))

AclFrame ==
    UNCHANGED <<vmVars, ndVars, elVars, nwVars, cmVars, fnVars, lkVars, sdVars, lateVars>>

\* add_acl that stores the rule at the requested order and moves nothing
add_acl_without_shift(d, order) ==
    /\ acOrder[d] < 0
    /\ Cardinality(AclRules) < MaxRules
    /\ acOrder' = [acOrder EXCEPT ![d] = order]
    /\ acChain' = InsertAt(acChain,
                           Cardinality({e \in AclRules : acOrder[e] < order}) + 1, d)
    /\ AclFrame

\* pvc network acl add --order: the rule is placed at the given order; when
\* that order is taken, the rule that has it and all later rules move down
\* by one
add_acl(d, order) ==
    /\ acOrder[d] < 0
    /\ Cardinality(AclRules) < MaxRules
    /\ LET taken == \E e \in AclRules : acOrder[e] = order
       IN acOrder' = [e \in Descriptions |->
                        IF e = d THEN order
                        ELSE IF taken /\ acOrder[e] >= order THEN acOrder[e] + 1
                        ELSE acOrder[e]]
    /\ acChain' = InsertAt(acChain,
                           Cardinality({e \in AclRules : acOrder[e] < order}) + 1, d)
    /\ AclFrame

InitAcl ==
    /\ acOrder = [d \in Descriptions |-> -1]
    /\ acChain = <<>>

ParkAcl == InitAcl

\* orders up to one past the number of rules are requested
NextAcl ==
    \E d \in Descriptions, order \in 0..MaxRules :
        order <= Cardinality(AclRules) + 1 /\ add_acl(d, order)

(***************************************************************************)
(* Part 10: a flush-locks request from the client to the handler.  The     *)
(* client's vm_locks is library code; the handler is run_command and       *)
(* flush_locks (src/node-daemon/pvcnoded/VMInstance.py lines 39-92) on the *)
(* primary.  Every rbd command succeeds here; their failures are Part 7.   *)
(***************************************************************************)

\* the parts 1 to 9 stay as they are in a step of a later part
EarlyFrame ==
    UNCHANGED <<vmVars, ndVars, elVars, nwVars, cmVars, fnVars, lkVars, sdVars, acVars>>

FlushReqFrame == EarlyFrame /\ UNCHANGED <<dhVars, wtVars, lastVars>>

\* the states a client can put the VM in
FlushReqStates == {"start", "shutdown", "stop"}

\* pvc vm flush-locks: the client refuses for a VM in state start and
\* otherwise writes the request to /cmd/domains
vm_locks ==
    /\ fqReqs < MaxRequests
    /\ fqCmd # "flush_locks"
    /\ fqReqs' = fqReqs + 1
    /\ fqCmd' = IF fqState = "start" THEN fqCmd ELSE "flush_locks"
    /\ UNCHANGED <<fqState, fqLocks>>
    /\ FlushReqFrame

\* pvc vm start / shutdown / stop by a client
fq_set_state(v) ==
    /\ fqReqs < MaxRequests
    /\ fqState # v
    /\ fqReqs' = fqReqs + 1
    /\ fqState' = v
    /\ UNCHANGED <<fqLocks, fqCmd>>
    /\ FlushReqFrame

\* a crashed owner has left a lock on a volume
fq_stale_lock(rbd, l) ==
    /\ l \notin fqLocks[rbd]
    /\ fqState # "start"
    /\ fqLocks' = [fqLocks EXCEPT ![rbd] = @ \cup {l}]
    /\ UNCHANGED <<fqState, fqCmd, fqReqs>>
    /\ FlushReqFrame

\* run_command on the primary (lines 70-92): the command is flush_locks, the
\* locks of the VM's volumes are removed and the answer is written
fq_run_command ==
    /\ fqCmd = "flush_locks"
    /\ fqLocks' = flush_locks_on(fqLocks, {}, {})
    /\ fqCmd' = IF flush_locks(1) THEN "success-flush_locks" ELSE "failure-flush_locks"
    /\ UNCHANGED <<fqState, fqReqs>>
    /\ FlushReqFrame

\* a running VM holds a lock on each of its volumes
InitFlushReq ==
    /\ fqState \in FlushReqStates
    /\ fqLocks = [rbd \in Volumes |-> IF fqState = "start" THEN {"lockA"} ELSE {}]
    /\ fqCmd = ""
    /\ fqReqs = 0

ParkFlushReq ==
    /\ fqState = "stop"
    /\ fqLocks = [rbd \in Volumes |-> {}]
    /\ fqCmd = ""
    /\ fqReqs = 0

NextFlushReq ==
    \/ vm_locks
    \/ \E v \in FlushReqStates : fq_set_state(v)
    \/ \E rbd \in Volumes, l \in LockIds : fq_stale_lock(rbd, l)
    \/ fq_run_command

(***************************************************************************)
(* Part 11: the DHCP side of one VXNetworkInstance                         *)
(* (src/router-daemon/pvcrd/VXNetworkInstance.py): the watches on          *)
(* dhcp_flag and dhcp_reservations, startDHCPServer and stopDHCPServer.    *)
(* The router's state is changed by code outside this file: the instance   *)
(* is followed on a node whose state stays what it is.  A watch that has   *)
(* an undelivered event calls its callback with the value the key has at   *)
(* the call; a callback that raises leaves its watch in place.             *)
(***************************************************************************)

\* number of changes the clients make in one run
MaxNetOps == 3

Macs == {"m1", "m2"}
Ips == {"ip1", "ip2"}
FlagValues == {"True", "False"}

DhcpFrame == EarlyFrame /\ UNCHANGED <<fqVars, wtVars, lastVars>>

\* the reservations the store holds
StoreReservations == {m \in Macs : dhStoreRes[m] # "none"}

\* '{},{}'.format(reservation, ipaddr)
Entry(reservation, ipaddr) == <<reservation, ",", ipaddr>>

\* pvc network modify: the flag is written (with the value it has or another)
dh_set_flag(v) ==
    /\ dhOps < MaxNetOps
    /\ dhOps' = dhOps + 1
    /\ dhStoreFlag' = v
    /\ dhFlagWatch' = TRUE
    /\ UNCHANGED <<dhFlag, dhPrimary, dhDaemon, dhRunning, dhStarted, dhDir, dhStoreRes,
                   dhResWatch, dhRes, dhFiles, dhLast>>
    /\ DhcpFrame

\* pvc network dhcp static add
dh_add(m, ip) ==
    /\ dhOps < MaxNetOps
    /\ dhStoreRes[m] = "none"
    /\ dhOps' = dhOps + 1
    /\ dhStoreRes' = [dhStoreRes EXCEPT ![m] = ip]
    /\ dhResWatch' = TRUE
    /\ UNCHANGED <<dhStoreFlag, dhFlagWatch, dhFlag, dhPrimary, dhDaemon, dhRunning,
                   dhStarted, dhDir, dhRes, dhFiles, dhLast>>
    /\ DhcpFrame

\* pvc network dhcp static remove
dh_remove(m) ==
    /\ dhOps < MaxNetOps
    /\ dhStoreRes[m] # "none"
    /\ dhOps' = dhOps + 1
    /\ dhStoreRes' = [dhStoreRes EXCEPT ![m] = "none"]
    /\ dhResWatch' = TRUE
    /\ UNCHANGED <<dhStoreFlag, dhFlagWatch, dhFlag, dhPrimary, dhDaemon, dhRunning,
                   dhStarted, dhDir, dhRes, dhFiles, dhLast>>
    /\ DhcpFrame

\* startDHCPServer (lines 237-285): on the primary the hosts directory is
\* made and a dnsmasq process is started and kept in dhcp_server_daemon.  A
\* process started while another is bound to the gateway address may or may
\* not stay up.
startDHCPServer ==
    IF dhPrimary
    THEN /\ dhDir' = TRUE
         /\ dhStarted' = dhStarted + 1
         /\ dhDaemon' = dhStarted + 1
         /\ \E up \in (IF dhRunning = {} THEN {TRUE} ELSE BOOLEAN) :
               dhRunning' = IF up THEN dhRunning \cup {dhStarted + 1} ELSE dhRunning
    ELSE UNCHANGED <<dhDir, dhStarted, dhDaemon, dhRunning>>

\* stopDHCPServer (lines 341-351): the process kept in dhcp_server_daemon is
\* sent SIGINT; the field keeps the process object
stopDHCPServer ==
    /\ dhRunning' = IF dhDaemon # 0 THEN dhRunning \ {dhDaemon} ELSE dhRunning
    /\ UNCHANGED <<dhDir, dhStarted, dhDaemon>>

\* watch_network_dhcp_status (lines 110-122) for a key that exists
watch_network_dhcp_status ==
    /\ dhFlagWatch
    /\ dhFlagWatch' = FALSE
    /\ LET data == dhStoreFlag
       IN IF dhFlag.typ = "bool" \/ dhFlag.val # data
          THEN /\ dhFlag' = [typ |-> "bool", val |-> data]
               /\ IF data = "True" /\ dhPrimary THEN startDHCPServer
                  ELSE IF dhPrimary THEN stopDHCPServer
                  ELSE UNCHANGED <<dhDir, dhStarted, dhDaemon, dhRunning>>
          ELSE UNCHANGED <<dhFlag, dhDir, dhStarted, dhDaemon, dhRunning>>
    /\ UNCHANGED <<dhStoreFlag, dhPrimary, dhStoreRes, dhResWatch, dhRes, dhFiles, dhLast,
                   dhOps>>
    /\ DhcpFrame

\* watch_network_dhcp_reservations (lines 144-168).  The files of the new
\* reservations are written (open raises when the directory is missing),
\* then the files of the reservations that went are removed (os.remove
\* raises on a missing file; which files were removed before depends on the
\* order of the list), then the daemon is signalled (None has no signal)
\* and the list is kept.  The lists are compared as sets.
watch_network_dhcp_reservations ==
    /\ dhResWatch
    /\ dhResWatch' = FALSE
    /\ LET reservations == StoreReservations
           new == reservations \ dhRes
           old == dhRes \ reservations
           written == [m \in Macs |-> IF m \in new THEN Entry(m, dhStoreRes[m])
                                                  ELSE dhFiles[m]]
           missing == {m \in old : written[m] = <<>>}
       IN IF dhRes = reservations
          THEN dhLast' = "same" /\ UNCHANGED <<dhFiles, dhRes>>
          ELSE IF new # {} /\ ~dhDir
          THEN dhLast' = "raised" /\ UNCHANGED <<dhFiles, dhRes>>
          ELSE IF missing # {}
          THEN /\ dhLast' = "raised"
               /\ \E gone \in SUBSET (old \ missing) :
                     dhFiles' = [m \in Macs |-> IF m \in gone THEN <<>> ELSE written[m]]
               /\ UNCHANGED dhRes
          ELSE /\ dhFiles' = [m \in Macs |-> IF m \in old THEN <<>> ELSE written[m]]
               /\ IF dhDaemon = 0
                  THEN dhLast' = "raised" /\ UNCHANGED dhRes
                  ELSE dhLast' = "hup" /\ dhRes' = reservations
    /\ UNCHANGED <<dhStoreFlag, dhFlagWatch, dhFlag, dhPrimary, dhDaemon, dhRunning,
                   dhStarted, dhDir, dhStoreRes, dhOps>>
    /\ DhcpFrame

\* the instance constructed (lines 44-56) for a network without reservations
InitDhcp ==
    /\ dhStoreFlag \in FlagValues
    /\ dhFlagWatch = FALSE
    /\ dhFlag = [typ |-> "str", val |-> dhStoreFlag]
    /\ dhPrimary \in BOOLEAN
    /\ dhDaemon = 0
    /\ dhRunning = {}
    /\ dhStarted = 0
    /\ dhDir \in BOOLEAN
    /\ dhStoreRes = [m \in Macs |-> "none"]
    /\ dhResWatch = FALSE
    /\ dhRes = {}
    /\ dhFiles = [m \in Macs |-> <<>>]
    /\ dhLast = "none"
    /\ dhOps = 0

ParkDhcp ==
    /\ dhStoreFlag = "False"
    /\ dhFlagWatch = FALSE
    /\ dhFlag = [typ |-> "str", val |-> "False"]
    /\ dhPrimary = FALSE
    /\ dhDaemon = 0
    /\ dhRunning = {}
    /\ dhStarted = 0
    /\ dhDir = FALSE
    /\ dhStoreRes = [m \in Macs |-> "none"]
    /\ dhResWatch = FALSE
    /\ dhRes = {}
    /\ dhFiles = [m \in Macs |-> <<>>]
    /\ dhLast = "none"
    /\ dhOps = 0

NextDhcp ==
    \/ \E v \in FlagValues : dh_set_flag(v)
    \/ \E m \in Macs, ip \in Ips : dh_add(m, ip)
    \/ \E m \in Macs : dh_remove(m)
    \/ watch_network_dhcp_status
    \/ watch_network_dhcp_reservations

(***************************************************************************)
(* Part 12: the data watches of the controllers when their keys are        *)
(* deleted: watch_state of VMInstance (lines 128-138), the seven data      *)
(* watches of VXNetworkInstance (lines 61-142) and the two of              *)
(* CephOSDInstance (src/node-daemon/pvcd/CephInstance.py lines 46-74).     *)
(* The framework calls a callback once when it is registered (no event,    *)
(* inside the constructor), then once per event with the data the key has  *)
(* at the call; the deletion of a key is delivered as an event of type     *)
(* DELETED; a callback that returned False is not called again.  What the  *)
(* network callbacks start on the primary (gateway address, DHCP server)   *)
(* is counted here and followed in parts 4 and 11.                         *)
(***************************************************************************)

\* number of changes the clients make in one run
MaxWatchOps == 3

NetWatches == {"description", "domain", "ip_network", "ip_gateway", "dhcp_flag",
               "dhcp_start", "dhcp_end"}
OsdWatches == {"osd_node", "osd_stats"}
Watches == {"state"} \cup NetWatches \cup OsdWatches

\* the values a key takes
KeyValues(w) == IF w = "dhcp_flag" THEN {"False", "True"} ELSE {"v1", "v2"}

\* the field as the constructor leaves it, the first call of the callback
\* included: stats is the parsed dict, the others hold the key's string
FieldAtInit(w, data) ==
    IF w = "osd_stats" THEN <<"dict", data>> ELSE <<"str", data>>

WatchFrame == EarlyFrame /\ UNCHANGED <<fqVars, dhVars, lastVars>>

\* a client writes a key that exists
wt_set(w, v) ==
    /\ wtOps < MaxWatchOps
    /\ wtKey[w] # "none"
    /\ wtOps' = wtOps + 1
    /\ wtKey' = [wtKey EXCEPT ![w] = v]
    /\ wtPending' = [wtPending EXCEPT ![w] =
                        IF wtActive[w] /\ @ = "" THEN "CHANGED" ELSE @]
    /\ UNCHANGED <<wtActive, wtField, wtThreads, wtWork, wtPrimary>>
    /\ WatchFrame

\* a client removes the object: its key is deleted
wt_delete(w) ==
    /\ wtOps < MaxWatchOps
    /\ wtKey[w] # "none"
    /\ wtOps' = wtOps + 1
    /\ wtKey' = [wtKey EXCEPT ![w] = "none"]
    /\ wtPending' = [wtPending EXCEPT ![w] = IF wtActive[w] THEN "DELETED" ELSE @]
    /\ UNCHANGED <<wtActive, wtField, wtThreads, wtWork, wtPrimary>>
    /\ WatchFrame

\* a client defines the object again: the key is created
wt_create(w, v) ==
    /\ wtOps < MaxWatchOps
    /\ wtKey[w] = "none"
    /\ wtOps' = wtOps + 1
    /\ wtKey' = [wtKey EXCEPT ![w] = v]
    /\ wtPending' = [wtPending EXCEPT ![w] =
                        IF wtActive[w] /\ @ = "" THEN "CREATED" ELSE @]
    /\ UNCHANGED <<wtActive, wtField, wtThreads, wtWork, wtPrimary>>
    /\ WatchFrame

\* the call is made: the event is consumed, and False ends the watch
Delivered(w, result) ==
    /\ wtPending' = [wtPending EXCEPT ![w] = ""]
    /\ wtActive' = [wtActive EXCEPT ![w] = result]

\* watch_state that starts the thread whatever the event is
wt_watch_state_any_event ==
    /\ wtActive["state"] /\ wtPending["state"] # ""
    /\ Delivered("state", TRUE)
    /\ wtThreads' = wtThreads + 1
    /\ UNCHANGED <<wtKey, wtField, wtWork, wtPrimary, wtOps>>
    /\ WatchFrame

\* VMInstance watch_state (lines 128-138): False on DELETED, else a thread
\* that runs manage_vm_state is started
wt_watch_state ==
    /\ wtActive["state"] /\ wtPending["state"] # ""
    /\ IF wtPending["state"] = "DELETED"
       THEN Delivered("state", FALSE) /\ UNCHANGED wtThreads
       ELSE Delivered("state", TRUE) /\ wtThreads' = wtThreads + 1
    /\ UNCHANGED <<wtKey, wtField, wtWork, wtPrimary, wtOps>>
    /\ WatchFrame

\* the data watches of VXNetworkInstance (lines 61-142): False on DELETED;
\* else, for data that is not empty and differs from the field, the field
\* is set (dhcp_flag to a boolean, which differs from every string), and on
\* the primary ip_gateway moves the gateway address and dhcp_flag starts or
\* stops the DHCP server
wt_watch_network(w) ==
    /\ wtActive[w] /\ wtPending[w] # ""
    /\ LET data == wtKey[w]
       IN IF wtPending[w] = "DELETED"
          THEN Delivered(w, FALSE) /\ UNCHANGED <<wtField, wtWork>>
          ELSE /\ Delivered(w, TRUE)
               /\ IF data # "none" /\ wtField[w] # <<"str", data>>
                  THEN /\ wtField' = [wtField EXCEPT ![w] =
                                         IF w = "dhcp_flag" THEN <<"bool", data>>
                                                            ELSE <<"str", data>>]
                       /\ wtWork' = IF w \in {"ip_gateway", "dhcp_flag"} /\ wtPrimary
                                    THEN wtWork + 1 ELSE wtWork
                  ELSE UNCHANGED <<wtField, wtWork>>
    /\ UNCHANGED <<wtKey, wtThreads, wtPrimary, wtOps>>
    /\ WatchFrame

\* the data watches of CephOSDInstance (lines 46-74): False on DELETED;
\* else data that is not empty and differs from the field is kept (stats
\* as the parsed dict, which differs from every string)
wt_watch_osd(w) ==
    /\ wtActive[w] /\ wtPending[w] # ""
    /\ LET data == wtKey[w]
       IN IF wtPending[w] = "DELETED"
          THEN Delivered(w, FALSE) /\ UNCHANGED wtField
          ELSE /\ Delivered(w, TRUE)
               /\ IF data # "none" /\ wtField[w] # <<"str", data>>
                  THEN wtField' = [wtField EXCEPT ![w] =
                                     IF w = "osd_stats" THEN <<"dict", data>>
                                                        ELSE <<"str", data>>]
                  ELSE UNCHANGED wtField
    /\ UNCHANGED <<wtKey, wtThreads, wtWork, wtPrimary, wtOps>>
    /\ WatchFrame

\* the controllers constructed and their watches registered: every key
\* exists, every callback has been called once and watch_state has started
\* its first thread
InitWatch ==
    /\ wtKey = [w \in Watches |-> CHOOSE v \in KeyValues(w) : v \in {"False", "v1"}]
    /\ wtPending = [w \in Watches |-> ""]
    /\ wtActive = [w \in Watches |-> TRUE]
    /\ wtField = [w \in Watches |-> FieldAtInit(w, wtKey[w])]
    /\ wtThreads = 1
    /\ wtWork = 0
    /\ wtPrimary \in BOOLEAN
    /\ wtOps = 0

ParkWatch ==
    /\ wtKey = [w \in Watches |-> "none"]
    /\ wtPending = [w \in Watches |-> ""]
    /\ wtActive = [w \in Watches |-> FALSE]
    /\ wtField = [w \in Watches |-> <<"None">>]
    /\ wtThreads = 0
    /\ wtWork = 0
    /\ wtPrimary = FALSE
    /\ wtOps = 0

NextWatch ==
    \/ \E w \in Watches : \E v \in KeyValues(w) : wt_set(w, v)
    \/ \E w \in Watches : wt_delete(w)
    \/ \E w \in Watches : \E v \in KeyValues(w) : wt_create(w, v)
    \/ wt_watch_state
    \/ \E w \in NetWatches : wt_watch_network(w)
    \/ \E w \in OsdWatches : wt_watch_osd(w)

(***************************************************************************)
(* Part 13: the waiting loops of receive_migrate (lines 388-427 and        *)
(* 432-458) and of shutdown_vm (lines 299-328), one iteration per step.    *)
(* What a loop waits for may come in any iteration.                        *)
(***************************************************************************)

Loops == {"receive", "fallback", "shutdown"}

\* the parts 1 to 12 stay as they are
MidFrame == EarlyFrame /\ UNCHANGED <<fqVars, dhVars, wtVars>>

WaitFrame == MidFrame /\ UNCHANGED <<rlVars, tailVars>>

\* time.sleep(..) and tick += .. at the head of an iteration
TickStep(loop) == IF loop = "shutdown" THEN 2 ELSE 1

\* the test that ends the loop by timeout (lines 421, 449, 325)
TimedOut(loop, tk) ==
    CASE loop = "receive" -> tk > RECEIVE_TIMEOUT
      [] loop = "fallback" -> tk > FALLBACK_TIMEOUT
      [] loop = "shutdown" -> tk >= SHUTDOWN_TIMEOUT

\* one iteration: sleep, count, look for what is waited for, test the timeout
wl_iterate ==
    /\ wlPc = "loop"
    /\ wlTick' = wlTick + TickStep(wlLoop)
    /\ wlSecs' = wlSecs + TickStep(wlLoop)
    /\ \E came \in BOOLEAN :
          wlPc' = IF came THEN "left"
                  ELSE IF TimedOut(wlLoop, wlTick') THEN "gave_up"
                  ELSE "loop"
    /\ UNCHANGED wlLoop
    /\ WaitFrame

\* tick = 0 before the loop (lines 386, 431, 298)
InitWait ==
    /\ wlLoop \in Loops
    /\ wlTick = 0
    /\ wlSecs = 0
    /\ wlPc = "loop"

ParkWait ==
    /\ wlLoop = "shutdown"
    /\ wlTick = 0
    /\ wlSecs = 0
    /\ wlPc = "left"

NextWait == wl_iterate

(***************************************************************************)
(* Part 14: addDomainToList and removeDomainFromList (lines 167-185) of    *)
(* the controllers of two VMs on one node.  The controllers share          *)
(* this_node.domain_list; each call runs on a thread of its VM.  A call    *)
(* changes the list, evaluates ' '.join of the list as the argument of     *)
(* writedata, and the write reaches the store: three steps.                *)
(***************************************************************************)

\* number of calls in one run
MaxCalls == 3

ListVMs == {"u1", "u2"}

ListFrame == MidFrame /\ UNCHANGED <<wlVars, tailVars>>

\* ' '.join(list)
RECURSIVE Join(_)
Join(list) ==
    IF list = <<>> THEN <<>>
    ELSE IF Len(list) = 1 THEN <<Head(list)>>
    ELSE <<Head(list), " ">> \o Join(Tail(list))

InSeq(x, list) == \E i \in 1..Len(list) : list[i] = x

\* list.remove(x): the first occurrence is taken out
RECURSIVE Without(_, _)
Without(list, x) ==
    IF list = <<>> THEN <<>>
    ELSE IF Head(list) = x THEN Tail(list)
    ELSE <<Head(list)>> \o Without(Tail(list), x)

\* addDomainToList, lines 168-171: nothing is done for a VM in the list
rl_add(v) ==
    /\ rlPc[v] = "idle"
    /\ rlCalls < MaxCalls
    /\ rlCalls' = rlCalls + 1
    /\ IF ~InSeq(v, rlList)
       THEN /\ rlList' = Append(rlList, v)
            /\ rlPc' = [rlPc EXCEPT ![v] = "changed"]
       ELSE UNCHANGED <<rlList, rlPc>>
    /\ UNCHANGED <<rlStore, rlVal>>
    /\ ListFrame

\* removeDomainFromList, lines 178-181: nothing is done for a VM not in the list
rl_remove(v) ==
    /\ rlPc[v] = "idle"
    /\ rlCalls < MaxCalls
    /\ rlCalls' = rlCalls + 1
    /\ IF InSeq(v, rlList)
       THEN /\ rlList' = Without(rlList, v)
            /\ rlPc' = [rlPc EXCEPT ![v] = "changed"]
       ELSE UNCHANGED <<rlList, rlPc>>
    /\ UNCHANGED <<rlStore, rlVal>>
    /\ ListFrame

\* lines 173 and 183: the argument of writedata is evaluated
rl_join(v) ==
    /\ rlPc[v] = "changed"
    /\ rlVal' = [rlVal EXCEPT ![v] = Join(rlList)]
    /\ rlPc' = [rlPc EXCEPT ![v] = "joined"]
    /\ UNCHANGED <<rlList, rlStore, rlCalls>>
    /\ ListFrame

\* lines 173 and 183: the write is made
rl_write(v) ==
    /\ rlPc[v] = "joined"
    /\ rlStore' = rlVal[v]
    /\ rlPc' = [rlPc EXCEPT ![v] = "idle"]
    /\ UNCHANGED <<rlList, rlVal, rlCalls>>
    /\ ListFrame

InitList ==
    /\ rlList = <<>>
    /\ rlStore = Join(rlList)
    /\ rlPc = [v \in ListVMs |-> "idle"]
    /\ rlVal = [v \in ListVMs |-> <<>>]
    /\ rlCalls = 0

ParkList == InitList

NextList ==
    \E v \in ListVMs : rl_add(v) \/ rl_remove(v) \/ rl_join(v) \/ rl_write(v)

\* the parts 13 and later at rest
(***************************************************************************)
(* Part 15: remove_osd (src/node-daemon/pvcd/CephInstance.py lines         *)
(* 163-246).  The function runs in one thread from its first line to its   *)
(* return; the outcomes of the commands it runs are its inputs.  A bare    *)
(* raise outside an except block raises RuntimeError, which the handler of *)
(* line 243 catches.                                                       *)
(***************************************************************************)

\* number of runs of remove_osd
MaxRemovals == 2

OsdIds == {"0", "1"}

\* the steps of remove_osd that can end the run with an exception, in the
\* order of the code; "none": every step went through
OsdSteps == <<"out", "dump", "stop", "delete", "readlink", "zap", "purge", "none">>

\* position of a step in the order of the code
StepNo(step) == CHOOSE i \in 1..Len(OsdSteps) : OsdSteps[i] = step

\* the step has been passed in a run that ended at step failedAt
Passed(step, failedAt) == StepNo(step) < StepNo(failedAt)

OsdFrame == MidFrame /\ UNCHANGED <<wlVars, rlVars, icVars>>

\* remove_osd(osd_id) in a run whose first failing step is failedAt
remove_osd(osd_id, failedAt) ==
    /\ osRuns < MaxRemovals
    /\ osRuns' = osRuns + 1
    /\ IF osd_id \notin osCluster
       THEN \* lines 167-171: not in the output of ceph osd ls
            /\ osLast' = [id |-> osd_id, result |-> "True",
                          store |-> osStore, cluster |-> osCluster]
            /\ UNCHANGED <<osStore, osCluster>>
       ELSE /\ osStore' = IF Passed("delete", failedAt)
                          THEN osStore \ {osd_id} ELSE osStore
            /\ osCluster' = IF Passed("purge", failedAt)
                            THEN osCluster \ {osd_id} ELSE osCluster
            /\ osLast' = [id |-> osd_id,
                          result |-> IF failedAt = "none" THEN "True" ELSE "False",
                          store |-> osStore, cluster |-> osCluster]
    /\ OsdFrame

NoRun == [id |-> "", result |-> "none", store |-> {}, cluster |-> {}]

\* OSDs made by add_osd are in the store and in the cluster; an OSD can be
\* in one of the two only (made or purged with the storage cluster's own
\* tools, or left by an earlier run)
InitOsd ==
    /\ osStore \in SUBSET OsdIds
    /\ osCluster \in SUBSET OsdIds
    /\ osLast = NoRun
    /\ osRuns = 0

ParkOsd ==
    /\ osStore = {}
    /\ osCluster = {}
    /\ osLast = NoRun
    /\ osRuns = 0

NextOsd ==
    \E osd_id \in OsdIds : \E i \in 1..Len(OsdSteps) : remove_osd(osd_id, OsdSteps[i])

(***************************************************************************)
(* Part 16: init_cluster (src/client-cli/pvc.py lines 1708-1756).  The     *)
(* store is the set of its keys.  The store's own operations are those of  *)
(* the client library: a recursive delete removes the key and everything   *)
(* below it and does nothing for a key that is absent; a create fails for  *)
(* a key that exists or whose parent is absent; a transaction is applied   *)
(* as a whole or not at all, and commit returns its results without        *)
(* raising.                                                                *)
(***************************************************************************)

\* number of runs of the command
MaxInits == 2

\* lines 1728-1732: the keys deleted, in the order of the code
Deletes == << <<"networks">>, <<"domains">>, <<"nodes">>, <<"primary_node">>,
              <<"ceph">> >>

\* lines 1738-1749: the keys the transaction creates, in the order of the code
RootCreates ==
    << <<"nodes">>, <<"primary_node">>, <<"domains">>, <<"networks">>, <<"ceph">>,
       <<"ceph", "osds">>, <<"ceph", "pools">>, <<"ceph", "volumes">>,
       <<"ceph", "snapshots">>, <<"cmd">>, <<"cmd", "domains">>, <<"cmd", "ceph">> >>

RootKeys == {RootCreates[i] : i \in 1..Len(RootCreates)}

\* entries of an earlier cluster: a node, a domain, a network, an OSD
OldEntries == { <<"nodes", "hv1">>, <<"domains", "u1">>, <<"networks", "n1">>,
                <<"ceph", "osds", "0">> }

Parent(p) == SubSeq(p, 1, Len(p) - 1)
IsPrefix(p, q) == Len(p) <= Len(q) /\ SubSeq(q, 1, Len(p)) = p

\* a store holds a key only with its parent
Closed(S) == \A p \in S : Len(p) > 1 => Parent(p) \in S

\* the store after the first n deletes of lines 1728-1732
DeleteFirst(S, n) == {q \in S : \A i \in 1..n : ~IsPrefix(Deletes[i], q)}

\* the creates of a transaction applied in order; stops at the first that fails
RECURSIVE Apply(_, _)
Apply(S, ops) ==
    IF ops = <<>> THEN [ok |-> TRUE, store |-> S]
    ELSE LET p == Head(ops)
         IN IF p \in S \/ (Len(p) > 1 /\ Parent(p) \notin S)
            THEN [ok |-> FALSE, store |-> S]
            ELSE Apply(S \cup {p}, Tail(ops))

\* transaction.commit(): all the creates or none
commit(S) == LET r == Apply(S, RootCreates) IN IF r.ok THEN r.store ELSE S

InitFrame == MidFrame /\ UNCHANGED <<wlVars, rlVars, osVars>>

\* init_cluster: confirmed is the --yes flag or the answer y; completed is
\* the number of deletes made before one raised (all of them: none raised)
init_cluster(confirmed, completed) ==
    /\ icRuns < MaxInits
    /\ icRuns' = icRuns + 1
    /\ IF ~confirmed
       THEN icResult' = "declined" /\ UNCHANGED <<icStore, icPrimary>>
       ELSE LET deleted == DeleteFirst(icStore, completed)
                final == commit(deleted)
            IN /\ icStore' = final
               /\ icPrimary' = IF <<"primary_node">> \notin final THEN ""
                                ELSE IF <<"primary_node">> \in deleted THEN icPrimary
                                ELSE "none"
               /\ icResult' = "success"
    /\ InitFrame

\* the store the command finds: empty, or with any of the root keys and of
\* the entries of an earlier cluster
InitInit ==
    /\ icStore \in {S \in SUBSET (RootKeys \cup OldEntries) : Closed(S)}
    /\ icPrimary \in (IF <<"primary_node">> \in icStore THEN {"none", "hv1"} ELSE {""})
    /\ icResult = "none"
    /\ icRuns = 0

ParkInit ==
    /\ icStore = {}
    /\ icPrimary = ""
    /\ icResult = "none"
    /\ icRuns = 0

NextInit ==
    \E confirmed \in BOOLEAN : \E completed \in 0..Len(Deletes) :
        init_cluster(confirmed, completed)

ParkTail == ParkOsd /\ ParkInit

ParkLast == ParkWait /\ ParkList /\ ParkTail

\* the parts 10 and later at rest
ParkLate == ParkFlushReq /\ ParkDhcp /\ ParkWatch /\ ParkLast

\* the later parts at rest
ParkAux == ParkLocks /\ ParkDaemon /\ ParkAcl /\ ParkLate

(***************************************************************************)
(* The specifications                                                      *)
(***************************************************************************)

\* the VM controllers of two nodes and the client
Init == InitVM /\ ParkNode /\ ParkElection /\ ParkNet /\ ParkCmd /\ ParkFence /\ ParkAux
Spec == Init /\ [][NextVM]_vars

\* the steps a thread takes when the only request is a migration of the
\* running VM: the functions entered on state=restart and by the owner on
\* state=stop are left out, and so is the failure of createXML (the one
\* driver failure of a run is the failed send)
MigrateStep(n, t) ==
    \/ watch_state(n, t)
    \/ manage_vm_state(n, t)
    \/ nr_post(n, t)
    \/ start_vm(n, t)
    \/ sv_exit(n, t)
    \/ terminate_vm(n, t)
    \/ tv_exit(n, t)
    \/ shutdown_vm(n, t)
    \/ sd_loop(n, t)
    \/ sd_exit(n, t)
    \/ sd_abort(n, t)
    \/ sd_after(n, t)
    \/ migrate_vm(n, t)
    \/ mg_live(n, t)
    \/ mg_done(n, t)
    \/ mg_exit(n, t)
    \/ receive_migrate(n, t)
    \/ rm_loop(n, t)
    \/ rm_fb(n, t)
    \/ rm_exit(n, t)

NextMigrate ==
    \/ \E n \in Nodes, t \in Threads : MigrateStep(n, t)
    \/ \E n \in Nodes : GuestPowersOff(n)
    \/ \E target \in Nodes : ClientMigrate(target)

\* the VM runs on its node hv1 after the first passes of both controllers:
\* it is in hv1's running list and no watch event is undelivered
InitSpecMigrate ==
    /\ zkState = "start"
    /\ zkNode = "hv1"
    /\ zkFailed = ""
    /\ zkRunning = [n \in Nodes |-> IF n = "hv1" THEN {VM} ELSE {}]
    /\ watch = [n \in Nodes |-> FALSE]
    /\ domain_list = [n \in Nodes |-> IF n = "hv1" THEN {VM} ELSE {}]
    /\ lv = [n \in Nodes |-> IF n = "hv1" THEN "running" ELSE "none"]
    /\ shutreq = [n \in Nodes |-> FALSE]
    /\ dom = [n \in Nodes |-> n = "hv1"]
    /\ selfState = [n \in Nodes |-> "start"]
    /\ selfNode = [n \in Nodes |-> "hv1"]
    /\ flags = [n \in Nodes |-> {}]
    /\ pc = [n \in Nodes |-> [t \in Threads |-> "idle"]]
    /\ stk = [n \in Nodes |-> [t \in Threads |-> <<>>]]
    /\ tick = [n \in Nodes |-> [t \in Threads |-> 0]]
    /\ role = [n \in Nodes |-> [t \in Threads |-> "none"]]
    /\ clientOps = 0
    /\ faults = 0
    /\ migReq = NoMig
    /\ ev = NoEv
    /\ ParkNode /\ ParkElection /\ ParkNet /\ ParkCmd /\ ParkFence /\ ParkAux

\* the VM controllers and a client that asks for a migration, with the
\* scheduling the daemons run under: a thread that can take a step takes it
\* in the end (the callbacks and the threads they start are run by the
\* interpreter); the guest is not bound to power off
SpecMigrate ==
    /\ InitSpecMigrate /\ [][NextMigrate]_vars
    /\ \A n \in Nodes, t \in Threads : WF_vars(MigrateStep(n, t))

\* the steps a thread takes when the VM stays on its node: the functions of
\* a migration and of a node that is not the VM's are left out
OwnerStep(n, t) ==
    \/ watch_state(n, t)
    \/ manage_vm_state(n, t)
    \/ nr_post(n, t)
    \/ start_vm(n, t)
    \/ sv_fail(n, t)
    \/ sv_exit(n, t)
    \/ restart_vm(n, t)
    \/ rv_add(n, t)
    \/ rv_exit(n, t)
    \/ stop_vm(n, t)
    \/ st_exit(n, t)
    \/ shutdown_vm(n, t)
    \/ sd_loop(n, t)
    \/ sd_exit(n, t)
    \/ sd_abort(n, t)
    \/ sd_after(n, t)

\* a request of the client made while shutdown_vm waits for the guest
ClientSupersede(v) ==
    /\ clientOps = MaxClientOps
    /\ \E n \in Nodes, t \in Threads : pc[n][t] = "sd_loop"
    /\ clientOps' = clientOps + 1
    /\ zkState' = v
    /\ watch' = AllWatch
    /\ ev' = [by |-> "client", val |-> v, at |-> "client", role |-> "none", ran |-> FALSE]
    /\ UNCHANGED <<zkNode, zkFailed, zkRunning, domain_list, lv, shutreq, dom,
                   selfState, selfNode, flags, pc, stk, tick, role, faults, migReq>>
    /\ VMFrame

\* the VM controllers and a client that makes a request (start, restart,
\* shutdown or stop) on the VM running on hv1 and may make another one
\* during a graceful shutdown, under the scheduling of SpecMigrate
NextRequest ==
    \/ \E n \in Nodes, t \in Threads : OwnerStep(n, t)
    \/ \E n \in Nodes : GuestPowersOff(n)
    \/ \E v \in ClientStates : ClientSetState(v)
    \/ \E v \in ClientStates : ClientSupersede(v)

SpecRequest ==
    /\ InitSpecMigrate /\ [][NextRequest]_vars
    /\ \A n \in Nodes, t \in Threads : WF_vars(OwnerStep(n, t))

\* receive_migrate on the node the VM is to run on (hv2), about to make an
\* iteration of its first loop: whatever state the store holds by then, the
\* domain absent, still incoming or running on hv2
InitSpecReceive ==
    /\ zkState \in ClientStates \cup {"migrate", "disable", "provision", "fail"}
    /\ zkNode = "hv2"
    /\ zkFailed = ""
    /\ \E src \in {"none", "running"}, dst \in {"none", "paused", "running"} :
         /\ dst = "paused" => src = "running"
         /\ dst = "running" => src = "none"
         /\ lv = [n \in Nodes |-> IF n = "hv1" THEN src ELSE dst]
    /\ zkRunning = [n \in Nodes |-> IF lv[n] = "running" /\ n = "hv1" THEN {VM} ELSE {}]
    /\ domain_list = zkRunning
    /\ watch = [n \in Nodes |-> FALSE]
    /\ shutreq = [n \in Nodes |-> FALSE]
    /\ dom = [n \in Nodes |-> n = "hv1" /\ lv[n] = "running"]
    /\ selfState = [n \in Nodes |-> "migrate"]
    /\ selfNode = [n \in Nodes |-> "hv2"]
    /\ flags = [n \in Nodes |-> IF n = "hv2" THEN {"inreceive"} ELSE {}]
    /\ pc = [n \in Nodes |-> [t \in Threads |->
                IF n = "hv2" /\ t = 1 THEN "rm_loop" ELSE "idle"]]
    /\ stk = [n \in Nodes |-> [t \in Threads |->
                IF n = "hv2" /\ t = 1
                THEN <<[pc |-> "nr_post", role |-> "own_absent"]>> ELSE <<>>]]
    /\ tick = [n \in Nodes |-> [t \in Threads |-> 0]]
    /\ role = [n \in Nodes |-> [t \in Threads |->
                IF n = "hv2" /\ t = 1 THEN "own_absent" ELSE "none"]]
    /\ clientOps = MaxClientOps
    /\ faults = 0
    /\ migReq = NoMig
    /\ ev = NoEv
    /\ ParkNode /\ ParkElection /\ ParkNet /\ ParkCmd /\ ParkFence /\ ParkAux

\* receive_migrate to its end and the return into the pass that called it
NextReceive ==
    \E n \in Nodes, t \in Threads :
        \/ rm_loop(n, t)
        \/ rm_fb(n, t)
        \/ rm_exit(n, t)
        \/ nr_post(n, t)

SpecReceive == InitSpecReceive /\ [][NextReceive]_vars

\* the values /domains/<u>/state can hold
States == {"start", "migrate", "restart", "shutdown", "stop", "disable", "provision",
           "fail", "unmigrate"}

\* a thread of hv1 started by watch_state is about to run manage_vm_state, for
\* every state and node in the store, the domain running on hv1 or not, with
\* or without the handle self.dom, listed or not, and no action or a
\* shutdown in progress on hv1; hv2 is idle, with or without the event
\* delivered
InitSpecReconcile ==
    /\ zkState \in States
    /\ zkNode \in Nodes
    /\ zkFailed = ""
    /\ \E l \in {"none", "running"} : lv = [n \in Nodes |-> IF n = "hv1" THEN l ELSE "none"]
    /\ \E d \in BOOLEAN : dom = [n \in Nodes |-> n = "hv1" /\ d]
    /\ \E ls \in SUBSET {VM} : domain_list = [n \in Nodes |-> IF n = "hv1" THEN ls ELSE {}]
    /\ zkRunning = domain_list
    /\ \E f \in {{}, {"inshutdown"}} : flags = [n \in Nodes |-> IF n = "hv1" THEN f ELSE {}]
    /\ \E w \in BOOLEAN : watch = [n \in Nodes |-> n = "hv2" /\ w]
    /\ shutreq = [n \in Nodes |-> FALSE]
    /\ selfState = [n \in Nodes |-> "start"]
    /\ selfNode = [n \in Nodes |-> "hv1"]
    /\ pc = [n \in Nodes |-> [t \in Threads |->
                IF n = "hv1" /\ t = 1 THEN "manage_vm_state" ELSE "idle"]]
    /\ stk = [n \in Nodes |-> [t \in Threads |-> <<>>]]
    /\ tick = [n \in Nodes |-> [t \in Threads |-> 0]]
    /\ role = [n \in Nodes |-> [t \in Threads |-> "none"]]
    /\ clientOps = MaxClientOps
    /\ faults = 0
    /\ migReq = NoMig
    /\ ev = NoEv
    /\ ParkNode /\ ParkElection /\ ParkNet /\ ParkCmd /\ ParkFence /\ ParkAux

\* the controllers without further requests of the client
NextReconcile ==
    \/ \E n \in Nodes, t \in Threads : ThreadStep(n, t)
    \/ \E n \in Nodes : GuestPowersOff(n)

SpecReconcile == InitSpecReconcile /\ [][NextReconcile]_vars

\* the thread of the local node and a caller of flush
InitSpecNode == InitNode /\ InitVM /\ ParkElection /\ ParkNet /\ ParkCmd /\ ParkFence /\ ParkAux
SpecNode == InitSpecNode /\ [][NextNode]_vars

\* the election and the network controllers of the coordinators
InitSpecNet == InitElection /\ InitNet /\ InitVM /\ ParkNode /\ ParkCmd /\ ParkFence /\ ParkAux
SpecNet == InitSpecNet /\ [][NextNet]_vars

\* the election and the command handlers of the coordinators
InitSpecCmd == InitElection /\ InitCmd /\ InitVM /\ ParkNode /\ ParkNet /\ ParkFence /\ ParkAux
SpecCmd == InitSpecCmd /\ [][NextCmd]_vars

\* the fencing by a fixed primary
InitSpecFence == InitPrimary /\ InitFence /\ InitVM /\ ParkNode /\ ParkNet /\ ParkCmd /\ ParkAux
SpecFence == InitSpecFence /\ [][NextFence]_vars

\* flush_locks run repeatedly on one VM
InitSpecLocks ==
    /\ InitLocks /\ InitVM /\ ParkNode /\ ParkElection /\ ParkNet /\ ParkCmd /\ ParkFence
    /\ ParkDaemon /\ ParkAcl /\ ParkLate
SpecLocks == InitSpecLocks /\ [][NextLocks]_vars

\* the daemon process and its session
InitSpecDaemon ==
    /\ InitDaemon /\ InitVM /\ ParkNode /\ ParkElection /\ ParkNet /\ ParkCmd /\ ParkFence
    /\ ParkLocks /\ ParkAcl /\ ParkLate
SpecDaemon == InitSpecDaemon /\ [][NextDaemon]_vars

\* the adds of firewall rules to one network
InitSpecAcl ==
    /\ InitAcl /\ InitVM /\ ParkNode /\ ParkElection /\ ParkNet /\ ParkCmd /\ ParkFence
    /\ ParkLocks /\ ParkDaemon /\ ParkLate
SpecAcl == InitSpecAcl /\ [][NextAcl]_vars

\* the parts 1 to 9 at rest
ParkEarly ==
    /\ InitVM /\ ParkNode /\ ParkElection /\ ParkNet /\ ParkCmd /\ ParkFence
    /\ ParkLocks /\ ParkDaemon /\ ParkAcl

\* flush-locks requests and state changes on one VM
InitSpecFlushReq == InitFlushReq /\ ParkEarly /\ ParkDhcp /\ ParkWatch /\ ParkLast
SpecFlushReq == InitSpecFlushReq /\ [][NextFlushReq]_vars

\* one network's DHCP flag and reservations on one node
InitSpecDhcp == InitDhcp /\ ParkEarly /\ ParkFlushReq /\ ParkWatch /\ ParkLast
SpecDhcp == InitSpecDhcp /\ [][NextDhcp]_vars

\* the data watches of the controllers and the clients that change and
\* delete their keys
InitSpecWatch == InitWatch /\ ParkEarly /\ ParkFlushReq /\ ParkDhcp /\ ParkLast
SpecWatch == InitSpecWatch /\ [][NextWatch]_vars

\* the parts 1 to 12 at rest
ParkMid == ParkEarly /\ ParkFlushReq /\ ParkDhcp /\ ParkWatch

\* one waiting loop from its first iteration
InitSpecWait == InitWait /\ ParkMid /\ ParkList /\ ParkTail
SpecWait == InitSpecWait /\ [][NextWait]_vars

\* the running list of a node under the calls of two VMs' threads
InitSpecList == InitList /\ ParkMid /\ ParkWait /\ ParkTail
SpecList == InitSpecList /\ [][NextList]_vars

InitSpecOsd == InitOsd /\ ParkMid /\ ParkWait /\ ParkList /\ ParkInit
SpecOsd == InitSpecOsd /\ [][NextOsd]_vars

InitSpecInit == InitInit /\ ParkMid /\ ParkWait /\ ParkList /\ ParkOsd
SpecInit == InitSpecInit /\ [][NextInit]_vars

(***************************************************************************)
(* Properties of the cluster parts                                         *)
(***************************************************************************)

\* the nodes that have the network's gateway address on their bridge
GatewayHolders == {n \in Coordinators : zkGateway \in bridge[n]}

\* C5 (as claimed): at most one node has the gateway address of the network
\* configured on its bridge, and that node is in primary router state (or
\* is the primary in the course of relinquishing, its teardown not yet run).
GatewaySingleton ==
    /\ Cardinality(GatewayHolders) <= 1
    /\ \A n \in GatewayHolders : router_state[n] \in {"primary", "relinquish"}

FenceBeforeRelocate ==
    /\ [](\A p \in Coordinators : fnResult[p] = "failure" =>
             fnState[p] = "dead" /\ \A d \in FnDomains : fnMoved[d] # p)
    /\ [][\A d \in FnDomains : fnNode'[d] # fnNode[d] =>
             fnState[fnNode[d]] = "fenced" /\ fnResult[fnNode[d]] = "success"]_vars

\* C10 witness: one peer was fenced and a domain relocated off it, while
\* the fencing of another peer failed and its domain stays
FenceBeforeRelocateWitness ==
    \E d, e \in FnDomains :
        /\ fnMoved[d] # "none" /\ fnResult[fnMoved[d]] = "success"
        /\ fnResult[fnNode[e]] = "failure" /\ fnMoved[e] = "none"

SessionLossFatal ==
    /\ sdPc = "ended" => sdMain = "exited"
    /\ sdAfter = 0

\* C13: after any sequence of adds with an explicit order no two rules have
\* the same order and the chain materialized by order is the sequence the
\* adds asked for: each new rule at its position, the rule that had the
\* position and all later rules after it.
AclOrderPreserved ==
    /\ \A d, e \in AclRules : acOrder[d] = acOrder[e] => d = e
    /\ SortedByOrder(AclRules) = acChain

\* C13 witness: a rule added at a taken order stands first, the two older
\* rules follow it, each moved down by one
AclOrderPreservedWitness ==
    \E d, e, f \in AclRules :
        /\ acChain = <<d, e, f>>
        /\ acOrder[d] = 0 /\ acOrder[e] = 1 /\ acOrder[f] = 2
        /\ d = "deny" /\ e = "ssh" /\ f = "web"

\* C14 (as claimed): after the write of state=shutdown that follows a failed
\* live send (line 374) the VM is in the end shut down on the source (not
\* running there, not in the source's runningdomains) with state=stop, in
\* whatever order the source's watch thread and the end of migrate_vm run.
SendFailureShutsDown ==
    \A n \in Nodes :
        [](ev.at = "migrate_vm:374" /\ ev.by = n =>
              <>(zkState = "stop" /\ lv[n] # "running" /\ VM \notin zkRunning[n]))

\* C15 (as claimed): after the target's write of state=start that ends the
\* wait for the remote shutdown (line 446) the VM is in the end cold-started
\* on the target (running there, in the target's runningdomains, state=start)
\* unless the driver fails to create it, in whatever order the target's watch
\* thread and the end of receive_migrate run.
FallbackColdStart ==
    \A n \in Nodes :
        [](ev.at = "receive_migrate:446" /\ ev.by = n =>
              <>(\/ zkState = "start" /\ lv[n] = "running" /\ VM \in zkRunning[n]
                 \/ zkFailed = "libvirtError"))

\* C16 (as claimed): a step of the receive loop that finds state other than
\* migrate while the domain is not running on the target writes neither
\* start nor fail, and it enters the fallback wait when state is shutdown or
\* stop.
ReceiveAbort ==
    [][\A n \in Nodes, t \in Threads :
          (/\ pc[n][t] = "rm_loop"
           /\ <<pc[n][t], tick[n][t]>>' # <<pc[n][t], tick[n][t]>>
           /\ zkState # "migrate"
           /\ lv[n] # "running")
          => /\ ~(ev'.by = n /\ ev'.val \in {"start", "fail"})
             /\ zkState \in {"shutdown", "stop"} => pc'[n][t] = "rm_fb"]_vars

\* C17 (as claimed): in every reachable state, state=fail implies that
\* failedreason is non-empty (the reason is set together with the state).
FailureExplained == zkState = "fail" => zkFailed # ""

\* C18: a step of migrate_vm on the source (lines 367-380, live_migrate_vm
\* included) never writes /domains/<u>/node and never writes start to state;
\* the steps of a successful send write nothing to the store but the removal
\* of the VM from the source's own runningdomains (line 376).
SendLeavesOwnership ==
    [][\A n \in Nodes, t \in Threads :
          (pc[n][t] \in {"migrate_vm", "mg_live", "mg_done", "mg_exit"}
              /\ pc'[n][t] # pc[n][t])
          => /\ zkNode' = zkNode
             /\ ~(ev'.by = n /\ ev'.val = "start")
             /\ (pc'[n][t] \in {"mg_live", "mg_done"} \/ pc[n][t] = "mg_done")
                  => /\ zkState' = zkState /\ ev'.by # n
                     /\ zkFailed' = zkFailed
                     /\ zkRunning' = [zkRunning EXCEPT ![n] =
                                        IF pc[n][t] = "mg_done" THEN @ \ {VM} ELSE @]]_vars

\* C18 witness: the send has succeeded and the source has taken the VM off
\* its list: the domain runs on the other node, node names that node and the
\* source's thread is at the end of migrate_vm
SendLeavesOwnershipWitness ==
    \E n \in Nodes, t \in Threads :
        /\ pc[n][t] = "mg_exit"
        /\ lv[n] = "none" /\ lv[Other(n)] = "running"
        /\ zkNode = Other(n)
        /\ VM \notin zkRunning[n]
        /\ "inmigrate" \in flags[n]

\* where a thread is after the function it is in has returned
Returned(n, t) == IF stk[n][t] = <<>> THEN "idle" ELSE Head(stk[n][t]).pc

\* a step that writes nothing to the store and leaves the domains as they are
NoEffect ==
    /\ UNCHANGED <<zkState, zkNode, zkFailed, zkRunning, domain_list, lv>>
    /\ ev' = NoEv

ReconcileOwnerAbsent ==
    [][\A n \in Nodes, t \in Threads :
          /\ (/\ pc[n][t] = "manage_vm_state" /\ pc'[n][t] # "manage_vm_state"
               /\ flags[n] = {} /\ zkNode = n /\ ~(dom[n] /\ lv[n] = "running"))
              => /\ zkState = "start" => pc'[n][t] = "start_vm" /\ NoEffect
                 /\ zkState = "migrate" => pc'[n][t] = "receive_migrate" /\ NoEffect
                 /\ zkState = "restart" =>
                        /\ zkState' = "start" /\ ev'.by = n
                        /\ UNCHANGED <<zkNode, zkFailed, zkRunning, domain_list, lv>>
                        /\ pc'[n][t] = Returned(n, t)
                 /\ zkState \in {"shutdown", "stop"} =>
                        /\ VM \notin domain_list'[n] /\ VM \notin zkRunning'[n]
                        /\ UNCHANGED <<zkState, zkNode, zkFailed, lv>> /\ ev' = NoEv
                        /\ pc'[n][t] = Returned(n, t)
          /\ (pc[n][t] = "start_vm" /\ pc'[n][t] = "sv_exit")
              => /\ lv'[n] = "running"
                 /\ VM \in domain_list'[n] /\ VM \in zkRunning'[n]
                 /\ UNCHANGED <<zkState, zkNode>> /\ ev' = NoEv]_vars

\* C20 witness: the owner's pass has found state=restart with no domain
\* running and has written state=start, creating nothing
ReconcileOwnerAbsentWitness ==
    /\ ev.at = "manage_vm_state:538" /\ ev.role = "own_absent" /\ ~ev.ran
    /\ zkState = "start" /\ zkNode = ev.by
    /\ lv[zkNode] = "none" /\ VM \notin zkRunning[zkNode]

GracefulShutdownEndsStopped ==
    [](ev.by = "client" /\ ev.val = "shutdown" /\ lv[zkNode] = "running" =>
          <>(\/ /\ zkState = "stop"
                 /\ lv[zkNode] # "running"
                 /\ VM \notin zkRunning[zkNode]
              \/ clientOps > MaxClientOps))

\* C23 (as claimed): when restart_vm makes its final write of state=start
\* (line 252) and the driver has not failed, the guest has acted on the
\* shutdown request of the restart (the domain has been not running since
\* the request), and after the write the domain runs, the VM is in the
\* node's runningdomains and state is start.
RestartStopsAndStarts ==
    [][\A n \in Nodes, t \in Threads :
          (pc[n][t] = "rv_add" /\ pc'[n][t] # "rv_add" /\ faults = 0)
          => /\ ~shutreq[n]
             /\ lv'[n] = "running"
             /\ VM \in zkRunning'[n]
             /\ zkState' = "start"]_vars

\* the pass of manage_vm_state that shutdown_vm calls after an abort (line 333)
AbortPass(n, t) ==
    /\ pc[n][t] = "manage_vm_state"
    /\ stk[n][t] # <<>>
    /\ Head(stk[n][t]).pc = "sd_after"

\* C24 (as claimed): an iteration of shutdown_vm's waiting loop that finds a
\* state other than shutdown or restart leaves the loop without a state write
\* and without touching the running list, and the pass of manage_vm_state
\* that follows reads the new state and is not turned away by the flags of
\* the shutdown it belongs to (inshutdown, inrestart).
ShutdownAbort ==
    [][\A n \in Nodes, t \in Threads :
          /\ (/\ pc[n][t] = "sd_loop" /\ pc'[n][t] # "sd_loop"
              /\ zkState \notin {"shutdown", "restart"})
             => /\ pc'[n][t] = "sd_abort"
                /\ UNCHANGED <<zkState, zkRunning, domain_list>>
          /\ (AbortPass(n, t) /\ pc'[n][t] # "manage_vm_state")
             => /\ selfState'[n] = zkState
                /\ flags[n] \cap {"inshutdown", "inrestart"} = {}]_vars

\* C25 (as claimed): a step of the flush_locks handler taken while
\* /domains/<u>/state is start removes no lock.
FlushOnlyWhenNotStarted ==
    [][fqCmd = "flush_locks" /\ fqCmd' # "flush_locks" /\ fqState = "start"
       => fqLocks' = fqLocks]_vars

\* the nodes of a node list a flush of the local node may move a domain to
Eligible(list) == {n \in Nodes : InList(n, list) /\ n # Local}

\* C26 (as claimed): the target that flush writes for a domain (line 51) is
\* a known node other than the flushing node, never the empty string.
FlushTargetEligible ==
    [][flPc = "set_hypervisor" /\ flPc' # "set_hypervisor"
       => dmHyp'[Head(flTodo)] \in Nodes \ {Local}]_vars

\* C27 (as claimed): when the node list holds a node a domain may be moved
\* to, the scan of flush for a domain's target ends with one of those nodes
\* chosen (the one with the most free memory is one of them).
FlushTargetByMemory ==
    [][(/\ flPc = "next" /\ flPc' # "next"
        /\ flTodo # <<>> /\ ndBound # Unbound /\ Eligible(ndBound) # {})
       => flPc' = "set_state" /\ flHost' \in Eligible(ndBound)]_vars

\* the files of the hosts directory are those of the store's reservations,
\* each holding '<mac>,<ip>'
Mirror ==
    \A m \in Macs :
        dhFiles[m] = IF dhStoreRes[m] = "none" THEN <<>> ELSE Entry(m, dhStoreRes[m])

\* C28 (as claimed): whenever the reservations callback has run for every
\* change made so far, the files of the hosts directory mirror the
\* reservations of the store, with or without a daemon on the node; and a
\* run of the callback that finds a change, on a node that has a daemon,
\* sends it the hang-up signal.
ReservationFilesMirrorStore ==
    /\ [](~dhResWatch => Mirror)
    /\ [][(/\ dhResWatch /\ ~dhResWatch'
            /\ dhRes # StoreReservations /\ dhDaemon # 0) => dhLast' = "hup"]_vars

\* C29 (as claimed): a process is started only on a node that is primary and
\* for a flag that is true, and a run of the flag's callback on the primary
\* that finds the flag off leaves no process of the network running.
DhcpOnlyOnPrimary ==
    [][/\ dhStarted' # dhStarted => dhPrimary /\ dhStoreFlag = "True"
       /\ (/\ dhFlagWatch /\ ~dhFlagWatch'
           /\ dhPrimary /\ dhStoreFlag = "False") => dhRunning' = {}]_vars

\* C30: the callback called for the deletion of its key ends its watch and
\* changes no controller field, starts no manage_vm_state thread and no
\* gateway or DHCP operation; and once a watch has ended, no event is kept
\* for it, its field stays as it is and, for /domains/<u>/state, no thread
\* is started any more, also when the key is created again.
WatchReapedOnDelete ==
    [][\A w \in Watches :
          /\ (wtPending[w] = "DELETED" /\ wtPending'[w] # "DELETED")
             => /\ ~wtActive'[w]
                /\ UNCHANGED <<wtField, wtThreads, wtWork>>
          /\ ~wtActive[w]
             => /\ ~wtActive'[w] /\ wtPending'[w] = ""
                /\ wtField'[w] = wtField[w]
                /\ w = "state" => wtThreads' = wtThreads]_vars

\* the watch of /domains/<u>/state has ended after at least one thread was
\* started, the key exists again, and a network or OSD watch has ended
WatchReapedOnDeleteWitness ==
    /\ ~wtActive["state"] /\ wtThreads > 0 /\ wtKey["state"] # "none"
    /\ \E w \in NetWatches \cup OsdWatches : ~wtActive[w]

\* C31 (as claimed): a loop that gave up has counted at most 90 ticks in the
\* receive loop, at most 120 in the fallback loop, and has slept at most 90
\* seconds in the loop of shutdown_vm.
WaitBounds ==
    wlPc = "gave_up" =>
        CASE wlLoop = "receive" -> wlTick <= 90
          [] wlLoop = "fallback" -> wlTick <= 120
          [] wlLoop = "shutdown" -> wlSecs <= 90

\* C32 (as claimed): whenever no call of addDomainToList or
\* removeDomainFromList is in progress on the node, the store's
\* runningdomains is the space-joined local list.
PublishedListMatches ==
    (\A v \in ListVMs : rlPc[v] = "idle") => rlStore = Join(rlList)

\* C33 (as claimed): once a client has written stop while a restart is in
\* progress on the VM's node and shutdown_vm is waiting for the guest, the
\* state is never start again.
RequestDuringRestartKept ==
    []((/\ ev.by = "client" /\ ev.val = "stop"
        /\ clientOps > MaxClientOps
        /\ "inrestart" \in flags[zkNode])
       => [](zkState # "start"))

\* C34 (as claimed): when the gateway watch runs on the primary for a change
\* from a non-empty old value to a new value, afterwards the bridge carries
\* the new gateway address and no longer carries the old one.
GatewayChangeReplaces ==
    [][\A n \in Coordinators :
         (/\ gwWatch[n] /\ ~gwWatch'[n]
          /\ router_state[n] = "primary"
          /\ ip_gateway[n] # ""
          /\ ip_gateway[n] # zkGateway)
         => /\ zkGateway \in bridge'[n]
            /\ ip_gateway[n] \notin bridge'[n]]_vars

\* C35 (as claimed): at most one DHCP/DNS process of the network runs on the
\* node, a running process is the one dhcp_server_daemon refers to, and no
\* process is started while an earlier one is still running.
OneDhcpDaemon ==
    /\ [](/\ Cardinality(dhRunning) <= 1
          /\ dhRunning # {} => dhRunning = {dhDaemon})
    /\ [][dhStarted' # dhStarted => dhRunning = {}]_vars

\* the locks on the volumes when run i of flush_locks began
LocksBefore(i) == IF i = 1 THEN lkFirst ELSE lkAfter[i - 1]

\* the listing of a volume, or the removal of a lock found, failed in run i
RunFailed(i) ==
    \/ lkListFail # {}
    \/ \E rbd \in Volumes \ lkListFail : \E l \in LocksBefore(i)[rbd] :
          <<rbd, l>> \in lkRmFail

\* C36 (as claimed): the response written for a run of flush_locks is
\* failure-<request> when the listing or the removal of a lock failed for
\* one of the VM's volumes, and success-<request> otherwise.
ResponseTellsOutcome ==
    \A i \in 1..Len(lkResults) :
       Answer(lkResults[i], Request(i)).prefix =
          IF RunFailed(i) THEN "failure-" ELSE "success-"

\* C37 (as claimed): a run of remove_osd deletes the OSD's key only when it
\* returns success, a run that returns failure leaves the store as it was,
\* and a run for an OSD the storage cluster does not list returns success
\* and leaves the store as it was.
OsdStoreInStep ==
    osLast.result # "none" =>
       /\ osStore # osLast.store => osLast.result = "True"
       /\ osLast.result = "False" => osStore = osLast.store
       /\ osLast.id \notin osLast.cluster
             => osLast.result = "True" /\ osStore = osLast.store

\* C38 (as claimed): after init reports success the store holds the root
\* keys, /primary_node is none, and no node, domain, network or storage
\* entry of an earlier cluster remains.
InitStartsClean ==
    icResult = "success" =>
       /\ RootKeys \subseteq icStore
       /\ icPrimary = "none"
       /\ icStore \cap OldEntries = {}

\* C39 (as claimed): once start_vm or receive_migrate, called by a pass of
\* manage_vm_state, has returned, the pass executes no further branch: it
\* neither writes state=start (line 538) nor takes the VM off the running
\* list (lines 541, 546).
OneBranchPerPass ==
    [][\A n \in Nodes : \A t \in Threads :
         (pc[n][t] = "nr_post" /\ pc'[n][t] # "nr_post")
         => /\ ev'.at # "manage_vm_state:538"
            /\ domain_list'[n] = domain_list[n]]_vars

====
